---- MODULE Spec2Model ----
(***************************************************************************)
(* Cancellable single-slot audio playback of the Claude response watcher,  *)
(* the text splitter, the log tailer, the synthesis call and the MCP speak *)
(* handler of aibis-cloud-tools.                                           *)
(*                                                                         *)
(* Spec        scripts/claude_code_speaker.py (library revision): the      *)
(*             watchdog dispatch thread runs handle_claude_response_tts    *)
(*             and _play_with_library_sync, the key-listener thread runs   *)
(*             _esc_monitor, the main thread runs graceful_shutdown.       *)
(*             play_audio_async is aibis_cloud_tools/tts.py.               *)
(* SpecLive    Spec with every thread of the watcher scheduled fairly.     *)
(* SpecLegacy  scripts/claude-code-speaker.py (script revision): the       *)
(*             handler starts the TTS script with Popen and a background   *)
(*             thread (_monitor_tts_process) reaps it.                     *)
(* SpecWait    SpecLive with one shutdown signal.                          *)
(* SpecSplit   aibis_cloud_tools/utils.py: split_text_smart applied to a   *)
(*             text and a chunk limit.                                     *)
(* SpecSplitLoop  split_text_smart loop by loop, for any integer limit.    *)
(* SpecTail    scripts/claude_code_speaker.py: process_new_lines on the    *)
(*             lines appended to a log, and get_tts_client of the MCP      *)
(*             server.                                                     *)
(* SpecHttp    aibis_cloud_tools/tts.py: synthesize_speech on a response.  *)
(* SpecMcp     scripts/mcp_server.py: handle_call_tool("speak", ...).      *)
(* SpecSay     scripts/say.py on one chunk: synthesize_and_stream, or      *)
(*             synthesize_speech and play_audio.                           *)
(***************************************************************************)
EXTENDS Integers, Sequences, FiniteSets, TLC

\* ------------------------------------------------------------------ bounds
MaxMessages == 2
MaxChunks == 2
MaxSignals == 2
MaxRecords == 3
MaxLaunch == 3
MaxTextLen == 4
MaxChars == 3
MaxLines == 3
MaxEvents == 3
MaxSegments == 2

\* ------------------------------------------------------------- vocabulary
None == 0
Procs == 1..MaxLaunch
Messages == 1..MaxMessages

Platforms == {"darwin", "linux", "win32", "other"}
Posix == {"darwin", "linux"}

W == <<"watcher", 0>>
E == <<"esc", 0>>
Sig(i) == <<"sig", i>>
NoThread == <<"none", 0>>
SigFrames == {Sig(i) : i \in 1..MaxSignals}
Threads == {W, E} \cup SigFrames

VARIABLES
    platform,             \* sys.platform
    host,                 \* "running" | "exited": the watcher's own process
    arrived,              \* assistant records appended to the watched log
    handled,              \* records the dispatch thread has finished handling
    pc,                   \* position of each thread of control
    kret,                 \* where _kill_current_tts returns to, per caller
    current_tts_process,  \* self.current_tts_process (None or a handle)
    process_lock,         \* holder of self.process_lock
    cleanup_done,         \* self._cleanup_done
    cleanup_lock,         \* holder of self._cleanup_lock
    pstate,               \* per handle: "unborn" | "running" | "exited"
    pown,                 \* per handle: <<message, chunk>> it plays
    nextId,               \* play_audio_async calls made so far
    files,                \* temp files that exist on disk
    unlinks,              \* os.unlink calls made per temp file
    wmsg, wchunk, wn,     \* handle_claude_response_tts: message, i, len(text_chunks)
    wproc, wtemp,         \* _play_with_library_sync: proc, temp_file_path
    synth,                \* <<message, chunk>> pairs handed to synthesize_speech
    synth_failed,         \* the pairs whose synthesize_speech call raised
    cancelled,            \* handles a cancel has been carried out on
    kcall,                \* per caller: what the running _kill_current_tts did
    cleanupRuns,          \* times cleanup() went past its guard
    cleanupCalls,         \* times cleanup() was entered
    activeAtSignal,       \* the slot held a running player when the first
                          \* signal came
    is_playing,           \* script revision: self.is_playing
    mpc,                  \* script revision: position of the reaper thread
                          \* started for each launch
    mtarget,              \* script revision: the handle a reaper waits on
    text, max_chars,      \* split_text_smart: its arguments
    chunks, split_done,   \* split_text_smart: the list returned, and whether
                          \* the call has been made
    sentences_left,       \* split_text_smart: sentences still to be combined
    cur_sentence,         \* split_text_smart: sentence of the for loop
    cur_chunk,            \* split_text_smart: current_chunk
    split_pc,             \* split_text_smart: position
    lines,                \* the watched .jsonl file, one entry per line
    initial_count,        \* lines the file had when the watcher was built
    processed_lines,      \* self.processed_lines[file_key]
    handledCount,         \* per line: calls of handle_claude_response for it
    effects,              \* per line: what handling it set off
    caughtUp,             \* a modification event was handled after the last
                          \* append
    eventsSeen,           \* modification events dispatched so far
    api_key,              \* the AIVIS_API_KEY environment variable
    client_result,        \* what get_tts_client() did
    status_code, body,    \* synthesize_speech: the HTTP response received
    outcome,              \* synthesize_speech: what the call did
    speech_segments,      \* handle_call_tool: the texts of the request
    mcp_pc,               \* handle_call_tool: position
    seg_i, chunk_idx,     \* handle_call_tool: loop indices i and chunk_idx
    text_chunks,          \* handle_call_tool: chunks of the current segment
    chunk_results,        \* handle_call_tool: chunk_results
    results,              \* handle_call_tool: results
    synth_calls,          \* <<segment, chunk>> of every synthesize_speech call
    final_result,         \* handle_call_tool: the dictionary returned
    realtime, no_wait,    \* say.py: args.realtime, args.no_wait
    output_format,        \* say.py: args.format
    response_body,        \* synthesize_and_stream: the body of the response
    audio_data,           \* synthesize_and_stream: 8192-byte chunks received
    temp_file_path,       \* synthesize_and_stream, play_audio: "none" | "path"
    temp_exists,          \* the file at temp_file_path is on disk
    audio_player,         \* synthesize_and_stream: "none" | "running" | "exited"
    enable_realtime_play, \* synthesize_and_stream: the parameter, as updated
    say_pc,               \* say.py: position in the processing of one chunk
    say_result            \* what the library call of say.py did

\* The state of the playback model (Spec, SpecLive, SpecLegacy).
playVars == <<platform, host, arrived, handled, pc, kret, current_tts_process,
              process_lock, cleanup_done, cleanup_lock, pstate, pown, nextId,
              files, unlinks, wmsg, wchunk, wn, wproc, wtemp, synth,
              synth_failed, cancelled,
              kcall, cleanupRuns, cleanupCalls, activeAtSignal, is_playing,
              mpc, mtarget>>
\* The state of the models of the text splitter, the log tailer, the
\* synthesis call and the MCP speak handler.
splitVars == <<text, max_chars, chunks, split_done, sentences_left, cur_sentence,
               cur_chunk, split_pc>>
tailVars == <<lines, initial_count, processed_lines, handledCount, effects,
              caughtUp, eventsSeen, api_key, client_result>>
httpVars == <<status_code, body, outcome>>
mcpVars == <<speech_segments, mcp_pc, seg_i, chunk_idx, text_chunks,
             chunk_results, results, synth_calls, final_result>>
\* The state of the model of the command-line tool say.py.
sayVars == <<realtime, no_wait, output_format, response_body, audio_data,
             temp_file_path, temp_exists, audio_player, enable_realtime_play,
             say_pc, say_result>>
extVars == <<splitVars, tailVars, httpVars, mcpVars, sayVars>>

vars == <<playVars, extVars>>

hostVars == <<platform, host>>
logVars == <<arrived, handled>>
ctlVars == <<pc, kret>>
slotVars == <<current_tts_process, process_lock>>
guardVars == <<cleanup_done, cleanup_lock, cleanupRuns, cleanupCalls,
               activeAtSignal>>
procVars == <<pstate, pown, nextId>>
fileVars == <<files, unlinks>>
wVars == <<wmsg, wchunk, wn, wproc, wtemp>>
histVars == <<synth, synth_failed, cancelled, kcall>>
legacyVars == <<is_playing, mpc, mtarget>>

\* ---------------------------------------------------------------- helpers
Running == {p \in Procs : pstate[p] = "running"}

\* _has_active_tts_process with the slot value s: the slot holds a handle
\* whose poll() is None.
HasActive(s, ps) == s # None /\ ps[s] = "running"

\* The record kept of a _kill_current_tts call: terminate() and kill() calls
\* made, whether the player still ran when wait(timeout=2) came back, and
\* whether terminate() met a player that was already gone.
NoCall == [terms |-> 0, kills |-> 0, alive |-> FALSE, raised |-> FALSE]

\* The kind of handle play_audio_async returns: a subprocess.Popen, or on
\* Windows the WindowsAudioProcess wrapper of a daemon thread.
HandleKind(plat) == IF plat = "win32" THEN "pseudo" ELSE "popen"

\* What the player executables do when started: env.first is afplay / play /
\* winsound, env.fallback is aplay.
LaunchStatus == {"ok", "missing", "denied"}
LaunchEnvs == [first : LaunchStatus, fallback : LaunchStatus]

\* play_audio_async, the platform dispatch: "popen", "pseudo" or "error".
\* Only FileNotFoundError of `play` falls back to `aplay`.
PlayerLaunch(plat, env) ==
    CASE plat = "darwin" -> IF env.first = "ok" THEN "popen" ELSE "error"
      [] plat = "linux"  -> IF env.first = "ok" THEN "popen"
                            ELSE IF env.first = "missing" /\ env.fallback = "ok"
                                 THEN "popen" ELSE "error"
      [] plat = "win32"  -> IF env.first = "ok" THEN "pseudo" ELSE "error"
      [] OTHER           -> "error"

\* A launch failure that leaves the temp file behind: what play_audio_async
\* would do without its except branch.
FilesKeptOnLaunchFailure(fs, n) == fs

\* play_audio_async, the except branch: os.unlink(temp_file_path) before raise.
FilesAfterLaunchFailure(fs, n) == fs \ {n}

\* proc.wait(timeout=2) on a handle in state st: the results it can have.
\* A Popen raises TimeoutExpired ("timeout") while the child still runs;
\* WindowsAudioProcess.wait joins for the timeout and returns 0 ("alive").
WaitOutcomes(kind, st) ==
    IF st # "running" THEN {"exited"}
    ELSE IF kind = "popen" THEN {"exited", "timeout"}
    ELSE {"exited", "alive"}

\* proc.kill(): SIGKILL ends a child process; WindowsAudioProcess.kill is pass.
StateAfterKill(kind, st) == IF kind = "popen" THEN "exited" ELSE st

\* cleanup_temp_file without its os.path.exists test.
CleanupTargetsUnguarded(path, fs) == IF path # None THEN {path} ELSE {}

\* cleanup_temp_file: the files it unlinks (guarded by os.path.exists).
CleanupTargets(path, fs) == IF path # None /\ path \in fs THEN {path} ELSE {}

Unlink(targets) ==
    /\ files' = files \ targets
    /\ unlinks' = [n \in Procs |-> IF n \in targets THEN unlinks[n] + 1
                                   ELSE unlinks[n]]

Goto(t, l) == pc' = [pc EXCEPT ![t] = l]
HostUp == host = "running"

\* ------------------------------------------------------------------- Init
InitCommon ==
    /\ host = "running"
    /\ arrived = 0
    /\ handled = 0
    /\ kret = [t \in Threads |-> "none"]
    /\ current_tts_process = None
    /\ process_lock = NoThread
    /\ cleanup_done = FALSE
    /\ cleanup_lock = NoThread
    /\ pstate = [p \in Procs |-> "unborn"]
    /\ pown = [p \in Procs |-> <<0, 0>>]
    /\ nextId = 0
    /\ files = {}
    /\ unlinks = [p \in Procs |-> 0]
    /\ wmsg = 0 /\ wchunk = 0 /\ wn = 0
    /\ wproc = None /\ wtemp = None
    /\ synth = {}
    /\ synth_failed = {}
    /\ cancelled = {}
    /\ kcall = [t \in Threads |-> NoCall]
    /\ cleanupRuns = 0
    /\ cleanupCalls = 0
    /\ activeAtSignal = FALSE
    /\ is_playing = FALSE
    /\ mpc = [p \in Procs |-> "none"]
    /\ mtarget = [p \in Procs |-> None]

\* The splitter, the tailer, the synthesis call and the MCP handler at rest:
\* the values their variables keep in the playback model.
SplitQuiet ==
    /\ chunks = <<>> /\ split_done = FALSE
    /\ sentences_left = <<>> /\ cur_sentence = <<>> /\ cur_chunk = <<>>
    /\ split_pc = "start"
SplitIdle == SplitQuiet /\ text = <<>> /\ max_chars = 1

TailQuiet ==
    /\ lines = <<>>
    /\ initial_count = 0
    /\ processed_lines = 0
    /\ handledCount = [i \in 1..MaxLines |-> 0]
    /\ effects = [i \in 1..MaxLines |-> {}]
    /\ caughtUp = FALSE
    /\ eventsSeen = 0
    /\ client_result = "none"

TailIdle == TailQuiet /\ api_key = "set"

\* synthesize_speech: the body of the response. "audio" is binary data,
\* "empty" no data, "brace" data that starts with { and is no JSON,
\* "json_other" a JSON object without status_code and detail, "json_error"
\* the object {status_code: embedded, detail: ...}.
Body(k, e) == [kind |-> k, embedded |-> e]
AudioBody == Body("audio", 200)
\* What a synthesize_speech call does: it returns the bytes read ("audio")
\* or raises an Exception whose message starts with the text of a category.
Outcome(k, c) == [kind |-> k, category |-> c]
NoOutcome == Outcome("none", "none")

HttpIdle ==
    /\ status_code = 200 /\ body = AudioBody /\ outcome = NoOutcome

\* handle_call_tool: the dictionary the speak tool returns, final_result or
\* error_result. "pending" stands for a call that has not returned.
FinalResult(ok, err, segs) ==
    [success |-> ok, error |-> err, segments_count |-> Len(segs),
     segments |-> segs]
NoResult == FinalResult(FALSE, "pending", <<>>)

McpIdle ==
    /\ speech_segments = <<>>
    /\ mcp_pc = "idle"
    /\ seg_i = 0 /\ chunk_idx = 0
    /\ text_chunks = <<>>
    /\ chunk_results = <<>>
    /\ results = <<>>
    /\ synth_calls = <<>>
    /\ final_result = NoResult

\* synthesize_and_stream: the body of the response, kind "audio",
\* "json_error" (an error object {status_code, detail}) or "http_error" (a
\* status other than 200), and its size in chunks of 8192 bytes.
StreamBody(k, n) == [kind |-> k, size |-> n]

SayIdle ==
    /\ realtime = FALSE /\ no_wait = FALSE
    /\ output_format = "mp3"
    /\ response_body = StreamBody("audio", 0)
    /\ audio_data = 0
    /\ temp_file_path = "none"
    /\ temp_exists = FALSE
    /\ audio_player = "none"
    /\ enable_realtime_play = TRUE
    /\ say_pc = "idle"
    /\ say_result = "pending"

ExtIdle == SplitIdle /\ TailIdle /\ HttpIdle /\ McpIdle /\ SayIdle

\* ClaudeResponseWatcher.__init__: the key listener starts only where
\* termios and select exist.
Init ==
    /\ InitCommon
    /\ ExtIdle
    /\ platform \in Platforms
    /\ pc = [t \in Threads |->
               IF t = W THEN "idle"
               ELSE IF t = E THEN (IF platform \in Posix THEN "e_idle" ELSE "e_off")
               ELSE "s_none"]

\* ------------------------------------------------------------ environment
\* A record of type assistant with text is appended to a watched .jsonl file.
Arrive ==
    /\ HostUp
    /\ arrived < MaxMessages
    /\ arrived' = arrived + 1
    /\ UNCHANGED <<extVars, legacyVars, hostVars, handled, ctlVars, slotVars, guardVars, procVars,
                   fileVars, wVars, histVars>>

\* The player finishes the audio by itself. (A run is followed up to the exit
\* of the watcher's own process.)
PlayerExits(p) ==
    /\ HostUp
    /\ pstate[p] = "running"
    /\ pstate' = [pstate EXCEPT ![p] = "exited"]
    /\ UNCHANGED <<extVars, legacyVars, hostVars, logVars, ctlVars, slotVars, guardVars, pown,
                   nextId, fileVars, wVars, histVars>>

\* ------------------------------------------- the watchdog dispatch thread
\* on_modified -> process_new_lines -> handle_claude_response ->
\* handle_claude_response_tts, up to the cancel of the previous playback.
\* The dispatch thread handles one event at a time: the next record is read
\* only after the handler of the previous one has returned. A run is followed
\* for MaxLaunch chunks.
HandleResponseTts ==
    /\ HostUp
    /\ pc[W] = "idle"
    /\ handled < arrived
    /\ Cardinality(synth) < MaxLaunch
    /\ wmsg' = handled + 1
    /\ IF HasActive(current_tts_process, pstate)
       THEN /\ pc' = [pc EXCEPT ![W] = "k_lock"]
            /\ kret' = [kret EXCEPT ![W] = "w_split"]
       ELSE /\ Goto(W, "w_split")
            /\ UNCHANGED kret
    /\ UNCHANGED <<extVars, legacyVars, hostVars, logVars, slotVars, guardVars, procVars, fileVars,
                   wchunk, wn, wproc, wtemp, histVars>>

\* handle_claude_response_tts: the log entry, then
\* text_chunks = split_text_smart(content, MAX_TEXT_LENGTH) and the first
\* turn of the loop over the chunks.
SplitText ==
    /\ HostUp
    /\ pc[W] = "w_split"
    /\ \E n \in 1..MaxChunks :
         /\ Cardinality(synth) + n <= MaxLaunch
         /\ wn' = n
    /\ wchunk' = 1
    /\ Goto(W, "w_synth")
    /\ UNCHANGED <<extVars, legacyVars, hostVars, logVars, kret, slotVars, guardVars, procVars,
                   fileVars, wmsg, wproc, wtemp, histVars>>

\* _play_with_library_sync, entry: proc = temp_file_path = None, then
\* client.synthesize_speech, which returns audio or raises.
Synthesize ==
    /\ HostUp
    /\ pc[W] = "w_synth"
    /\ wproc' = None
    /\ wtemp' = None
    /\ synth' = synth \cup {<<wmsg, wchunk>>}
    /\ \/ Goto(W, "w_launch") /\ UNCHANGED synth_failed
       \/ /\ Goto(W, "w_finally")
          /\ synth_failed' = synth_failed \cup {<<wmsg, wchunk>>}
    /\ UNCHANGED <<extVars, legacyVars, hostVars, logVars, kret, slotVars, guardVars, procVars,
                   fileVars, wmsg, wchunk, wn, cancelled, kcall>>

\* play_audio_async: the audio is written to a new NamedTemporaryFile and the
\* player is started; on an exception the temp file is unlinked and the
\* exception raised again (caught by the except Exception of
\* _play_with_library_sync).
PlayAudioAsync ==
    /\ HostUp
    /\ pc[W] = "w_launch"
    /\ nextId' = nextId + 1
    /\ \E env \in LaunchEnvs :
         IF PlayerLaunch(platform, env) = "error"
         THEN /\ files' = FilesAfterLaunchFailure(files \cup {nextId'}, nextId')
              /\ unlinks' = [unlinks EXCEPT ![nextId'] = @ + 1]
              /\ Goto(W, "w_finally")
              /\ UNCHANGED <<legacyVars, pstate, pown, wproc, wtemp>>
         ELSE /\ files' = files \cup {nextId'}
              /\ pstate' = [pstate EXCEPT ![nextId'] = "running"]
              /\ pown' = [pown EXCEPT ![nextId'] = <<wmsg, wchunk>>]
              /\ wproc' = nextId'
              /\ wtemp' = nextId'
              /\ Goto(W, "w_install")
              /\ UNCHANGED unlinks
    /\ UNCHANGED <<extVars, legacyVars, hostVars, logVars, kret, slotVars, guardVars,
                   wmsg, wchunk, wn, histVars>>

\* with self.process_lock: self.current_tts_process = proc
InstallSession ==
    /\ HostUp
    /\ pc[W] = "w_install"
    /\ process_lock = NoThread
    /\ current_tts_process' = wproc
    /\ Goto(W, "w_poll")
    /\ UNCHANGED <<extVars, legacyVars, hostVars, logVars, kret, process_lock, guardVars, procVars,
                   fileVars, wVars, histVars>>

\* The polling loop left at its first test whatever poll() returns.
WaitPollAlwaysBreaks ==
    /\ HostUp
    /\ pc[W] = "w_poll"
    /\ Goto(W, "w_finally")
    /\ UNCHANGED <<extVars, legacyVars, hostVars, logVars, kret, slotVars,
                   guardVars, procVars, fileVars, wVars, histVars>>

\* while should_continue: if proc.poll() is not None: break
WaitPoll ==
    /\ HostUp
    /\ pc[W] = "w_poll"
    /\ IF pstate[wproc] # "running" THEN Goto(W, "w_finally")
       ELSE Goto(W, "w_check")
    /\ UNCHANGED <<extVars, legacyVars, hostVars, logVars, kret, slotVars, guardVars, procVars,
                   fileVars, wVars, histVars>>

\* with self.process_lock: should_continue = (self.current_tts_process == proc);
\* then time.sleep(CANCEL_CHECK_INTERVAL) or the cancel branch.
WaitCheck ==
    /\ HostUp
    /\ pc[W] = "w_check"
    /\ process_lock = NoThread
    /\ IF current_tts_process = wproc THEN Goto(W, "w_poll")
       ELSE Goto(W, "w_cpoll")
    /\ UNCHANGED <<extVars, legacyVars, hostVars, logVars, kret, slotVars, guardVars, procVars,
                   fileVars, wVars, histVars>>

\* cancel branch: if proc.poll() is None: proc.terminate()
WaitCancelTerminate ==
    /\ HostUp
    /\ pc[W] = "w_cpoll"
    /\ IF pstate[wproc] = "running" THEN Goto(W, "w_cwait")
       ELSE Goto(W, "w_ccleanup")
    /\ UNCHANGED <<extVars, legacyVars, hostVars, logVars, kret, slotVars, guardVars, procVars,
                   fileVars, wVars, histVars>>

\* cancel branch: proc.wait(timeout=PROCESS_TERMINATION_TIMEOUT), and
\* proc.kill() on TimeoutExpired.
WaitCancelWait ==
    /\ HostUp
    /\ pc[W] = "w_cwait"
    /\ \E r \in WaitOutcomes(HandleKind(platform), pstate[wproc]) :
         pstate' = [pstate EXCEPT ![wproc] =
                      IF r = "exited" THEN "exited"
                      ELSE IF r = "timeout"
                           THEN StateAfterKill(HandleKind(platform), @)
                           ELSE @]
    /\ Goto(W, "w_ccleanup")
    /\ UNCHANGED <<extVars, legacyVars, hostVars, logVars, kret, slotVars, guardVars, pown, nextId,
                   fileVars, wVars, histVars>>

\* cancel branch: cleanup_temp_file(); return
WaitCancelCleanup ==
    /\ HostUp
    /\ pc[W] = "w_ccleanup"
    /\ Unlink(CleanupTargets(wtemp, files))
    /\ Goto(W, "w_finally")
    /\ UNCHANGED <<extVars, legacyVars, hostVars, logVars, kret, slotVars, guardVars, procVars,
                   wVars, histVars>>

\* finally: cleanup_temp_file()
FinallyCleanup ==
    /\ HostUp
    /\ pc[W] = "w_finally"
    /\ Unlink(CleanupTargets(wtemp, files))
    /\ Goto(W, "w_release")
    /\ UNCHANGED <<extVars, legacyVars, hostVars, logVars, kret, slotVars, guardVars, procVars,
                   wVars, histVars>>

\* finally: with self.process_lock:
\*              if self.current_tts_process == proc: self.current_tts_process = None
\* and, back in the loop of handle_claude_response_tts, the next chunk after
\* time.sleep(SPLIT_PAUSE) or the end of the handler.
FinallyRelease ==
    /\ HostUp
    /\ pc[W] = "w_release"
    /\ process_lock = NoThread
    /\ current_tts_process' =
         IF current_tts_process = wproc THEN None ELSE current_tts_process
    /\ IF wchunk < wn
       THEN /\ wchunk' = wchunk + 1
            /\ Goto(W, "w_synth")
            /\ UNCHANGED handled
       ELSE /\ handled' = handled + 1
            /\ Goto(W, "idle")
            /\ UNCHANGED wchunk
    /\ UNCHANGED <<extVars, legacyVars, hostVars, arrived, kret, process_lock, guardVars, procVars,
                   fileVars, wmsg, wn, wproc, wtemp, histVars>>

\* ------------------------------------------------------ _kill_current_tts
\* Signal handlers run on the main thread, each new one on top of the one it
\* interrupts: only the innermost frame runs.
IsTop(t) == \A i, j \in 1..MaxSignals : (t = Sig(i) /\ j > i) => pc[Sig(j)] = "s_none"
CanRun(t) == HostUp /\ (t \in SigFrames => IsTop(t))

\* with self.process_lock:
\*     if self._has_active_tts_process() and self.current_tts_process is not None:
KillCheck(t) ==
    /\ CanRun(t)
    /\ pc[t] = "k_lock"
    /\ process_lock = NoThread
    /\ process_lock' = t
    /\ kcall' = [kcall EXCEPT ![t] = NoCall]
    /\ Goto(t, IF HasActive(current_tts_process, pstate) THEN "k_term"
                ELSE "k_none")
    /\ UNCHANGED <<extVars, legacyVars, hostVars, logVars, kret, current_tts_process, guardVars,
                   procVars, fileVars, wVars, synth, synth_failed, cancelled>>

\* With no active player the body of the if is skipped: the lock is released
\* and the call returns.
KillNone(t) ==
    /\ CanRun(t)
    /\ pc[t] = "k_none"
    /\ process_lock' = NoThread
    /\ Goto(t, kret[t])
    /\ UNCHANGED <<extVars, legacyVars, hostVars, logVars, kret, current_tts_process, guardVars,
                   procVars, fileVars, wVars, histVars>>

\* self.current_tts_process.terminate(). If the player has exited since the
\* check, terminate() returns or raises ProcessLookupError (except: pass).
\* Signalling a live child of the watcher itself is taken to succeed.
KillTerminate(t) ==
    /\ CanRun(t)
    /\ pc[t] = "k_term"
    /\ cancelled' = IF pstate[current_tts_process] = "running"
                    THEN cancelled \cup {current_tts_process} ELSE cancelled
    /\ \/ /\ kcall' = [kcall EXCEPT ![t].terms = @ + 1]
          /\ Goto(t, "k_wait")
       \/ /\ pstate[current_tts_process] # "running"
          /\ kcall' = [kcall EXCEPT ![t].terms = @ + 1, ![t].raised = TRUE]
          /\ Goto(t, "k_clear")
    /\ UNCHANGED <<extVars, legacyVars, hostVars, logVars, kret, slotVars, guardVars, procVars,
                   fileVars, wVars, synth, synth_failed>>

\* self.current_tts_process.wait(timeout=2)
KillWait(t) ==
    /\ CanRun(t)
    /\ pc[t] = "k_wait"
    /\ \E r \in WaitOutcomes(HandleKind(platform), pstate[current_tts_process]) :
         /\ pstate' = [pstate EXCEPT ![current_tts_process] =
                         IF r = "exited" THEN "exited" ELSE @]
         /\ kcall' = [kcall EXCEPT ![t].alive = (r # "exited")]
         /\ Goto(t, IF r = "timeout" THEN "k_kill" ELSE "k_clear")
    /\ UNCHANGED <<extVars, legacyVars, hostVars, logVars, kret, slotVars, guardVars, pown, nextId,
                   fileVars, wVars, synth, synth_failed, cancelled>>

\* except subprocess.TimeoutExpired: self.current_tts_process.kill()
KillKill(t) ==
    /\ CanRun(t)
    /\ pc[t] = "k_kill"
    /\ pstate' = [pstate EXCEPT ![current_tts_process] =
                    StateAfterKill(HandleKind(platform), @)]
    /\ kcall' = [kcall EXCEPT ![t].kills = @ + 1]
    /\ Goto(t, "k_clear")
    /\ UNCHANGED <<extVars, legacyVars, hostVars, logVars, kret, slotVars, guardVars, pown, nextId,
                   fileVars, wVars, synth, synth_failed, cancelled>>

\* self.current_tts_process = None, after the try statement; the lock is
\* released and the call returns.
KillClear(t) ==
    /\ CanRun(t)
    /\ pc[t] = "k_clear"
    /\ current_tts_process' = None
    /\ process_lock' = NoThread
    /\ kcall' = [kcall EXCEPT ![t] = NoCall]
    /\ Goto(t, kret[t])
    /\ UNCHANGED <<extVars, legacyVars, hostVars, logVars, kret, guardVars, procVars, fileVars,
                   wVars, synth, synth_failed, cancelled>>

\* ------------------------------------------------ the key-listener thread
\* _esc_monitor: sys.stdin.read(1) returns ESC, and _has_active_tts_process is
\* called without the lock: three reads of self.current_tts_process.
\* First: `self.current_tts_process and ...`.
EscPress ==
    /\ HostUp
    /\ pc[E] = "e_idle"
    /\ Goto(E, IF current_tts_process = None THEN "e_idle" ELSE "e_r2")
    /\ UNCHANGED <<extVars, legacyVars, hostVars, logVars, kret, slotVars, guardVars, procVars,
                   fileVars, wVars, histVars>>

\* Second: hasattr(self.current_tts_process, 'poll'), False for None.
EscRead2 ==
    /\ HostUp
    /\ pc[E] = "e_r2"
    /\ Goto(E, IF current_tts_process = None THEN "e_idle" ELSE "e_r3")
    /\ UNCHANGED <<extVars, legacyVars, hostVars, logVars, kret, slotVars, guardVars, procVars,
                   fileVars, wVars, histVars>>

\* Third: self.current_tts_process.poll() is None. On None the AttributeError
\* leaves the while loop of _esc_monitor through `except Exception: pass`.
\* With an active player the listener calls _kill_current_tts.
EscRead3 ==
    /\ HostUp
    /\ pc[E] = "e_r3"
    /\ IF current_tts_process = None
       THEN Goto(E, "e_dead") /\ UNCHANGED kret
       ELSE IF pstate[current_tts_process] = "running"
            THEN /\ Goto(E, "k_lock")
                 /\ kret' = [kret EXCEPT ![E] = "e_idle"]
            ELSE Goto(E, "e_idle") /\ UNCHANGED kret
    /\ UNCHANGED <<extVars, legacyVars, hostVars, logVars, slotVars, guardVars, procVars, fileVars,
                   wVars, histVars>>

\* ------------------------------------------- the main thread: shutdown
\* SIGINT or SIGTERM is delivered: graceful_shutdown(signum, _) starts and
\* cleanup() comes to `with self._cleanup_lock:`. The lock is not reentrant:
\* a handler that finds it held by the frame it has interrupted waits for
\* good ("c_lock").
Signal(i) ==
    /\ HostUp
    /\ pc[Sig(i)] = "s_none"
    /\ IF i = 1 THEN TRUE ELSE pc[Sig(i - 1)] # "s_none"
    /\ IF cleanup_lock = NoThread
       THEN cleanup_lock' = Sig(i) /\ Goto(Sig(i), "c_flag")
       ELSE UNCHANGED cleanup_lock /\ Goto(Sig(i), "c_lock")
    /\ cleanupCalls' = cleanupCalls + 1
    /\ activeAtSignal' = IF i = 1 THEN HasActive(current_tts_process, pstate)
                         ELSE activeAtSignal
    /\ UNCHANGED <<extVars, legacyVars, hostVars, logVars, kret, slotVars, cleanup_done,
                   cleanupRuns, procVars, fileVars, wVars, histVars>>

\* cleanup: `if self._cleanup_done: return`
CleanupAlreadyDone(done) == done

\* cleanup: the guard, self._cleanup_done = True, the lock released, and the
\* call of _kill_current_tts.
CleanupGuard(t) ==
    /\ CanRun(t)
    /\ pc[t] = "c_flag"
    /\ cleanup_lock' = NoThread
    /\ IF CleanupAlreadyDone(cleanup_done)
       THEN /\ Goto(t, "c_exit")
            /\ UNCHANGED <<legacyVars, kret, cleanup_done, cleanupRuns>>
       ELSE /\ cleanup_done' = TRUE
            /\ cleanupRuns' = cleanupRuns + 1
            /\ Goto(t, "k_lock")
            /\ kret' = [kret EXCEPT ![t] = "c_exit"]
    /\ UNCHANGED <<extVars, legacyVars, hostVars, logVars, slotVars, cleanupCalls, activeAtSignal,
                   procVars, fileVars, wVars, histVars>>

\* graceful_shutdown: sys.exit(0). The dispatch thread, the key listener and
\* the winsound thread are daemon threads and end with the interpreter;
\* child processes do not.
ShutdownExit(t) ==
    /\ CanRun(t)
    /\ pc[t] = "c_exit"
    /\ host' = "exited"
    /\ pstate' = [p \in Procs |->
                    IF HandleKind(platform) = "pseudo" /\ pstate[p] = "running"
                    THEN "exited" ELSE pstate[p]]
    /\ UNCHANGED <<extVars, legacyVars, platform, logVars, ctlVars, slotVars, guardVars, pown,
                   nextId, fileVars, wVars, histVars>>

\* ------------------------------------------------------------------- Next
Next ==
    \/ Arrive
    \/ \E p \in Procs : PlayerExits(p)
    \/ HandleResponseTts
    \/ SplitText
    \/ Synthesize
    \/ PlayAudioAsync
    \/ InstallSession
    \/ WaitPoll
    \/ WaitCheck
    \/ WaitCancelTerminate
    \/ WaitCancelWait
    \/ WaitCancelCleanup
    \/ FinallyCleanup
    \/ FinallyRelease
    \/ \E t \in Threads : KillCheck(t)
    \/ \E t \in Threads : KillNone(t)
    \/ \E t \in Threads : KillTerminate(t)
    \/ \E t \in Threads : KillWait(t)
    \/ \E t \in Threads : KillKill(t)
    \/ \E t \in Threads : KillClear(t)
    \/ EscPress
    \/ EscRead2
    \/ EscRead3
    \/ \E i \in 1..MaxSignals : Signal(i)
    \/ \E t \in SigFrames : CleanupGuard(t)
    \/ \E t \in SigFrames : ShutdownExit(t)

Spec == Init /\ [][Next]_vars

\* ---------------------------------------------------------- scheduling
\* _kill_current_tts as run by thread t.
KillNext(t) ==
    \/ KillCheck(t)
    \/ KillNone(t)
    \/ KillTerminate(t)
    \/ KillWait(t)
    \/ KillKill(t)
    \/ KillClear(t)

\* The steps of the watchdog dispatch thread.
WatcherNext ==
    \/ HandleResponseTts
    \/ SplitText
    \/ Synthesize
    \/ PlayAudioAsync
    \/ InstallSession
    \/ WaitPoll
    \/ WaitCheck
    \/ WaitCancelTerminate
    \/ WaitCancelWait
    \/ WaitCancelCleanup
    \/ FinallyCleanup
    \/ FinallyRelease
    \/ KillNext(W)

\* The steps the key listener takes once ESC has been read.
EscNext ==
    \/ EscRead2
    \/ EscRead3
    \/ KillNext(E)

\* The steps of the main thread once a signal has been delivered.
MainNext ==
    \E t \in SigFrames :
        CleanupGuard(t) \/ KillNext(t) \/ ShutdownExit(t)

\* Every thread of the watcher that can take a step is scheduled at some
\* time. How long a player plays, whether a key is pressed and whether a
\* signal or a new record arrives is left open.
SpecLive ==
    /\ Init /\ [][Next]_vars
    /\ WF_vars(WatcherNext) /\ WF_vars(EscNext) /\ WF_vars(MainNext)

\* SpecLive with one shutdown signal: no handler is interrupted by a second
\* signal.
NextWait ==
    \/ Arrive
    \/ \E p \in Procs : PlayerExits(p)
    \/ HandleResponseTts
    \/ SplitText
    \/ Synthesize
    \/ PlayAudioAsync
    \/ InstallSession
    \/ WaitPoll
    \/ WaitCheck
    \/ WaitCancelTerminate
    \/ WaitCancelWait
    \/ WaitCancelCleanup
    \/ FinallyCleanup
    \/ FinallyRelease
    \/ \E t \in Threads : KillCheck(t)
    \/ \E t \in Threads : KillNone(t)
    \/ \E t \in Threads : KillTerminate(t)
    \/ \E t \in Threads : KillWait(t)
    \/ \E t \in Threads : KillKill(t)
    \/ \E t \in Threads : KillClear(t)
    \/ EscPress
    \/ EscRead2
    \/ EscRead3
    \/ Signal(1)
    \/ \E t \in SigFrames : CleanupGuard(t)
    \/ \E t \in SigFrames : ShutdownExit(t)

SpecWait ==
    /\ Init /\ [][NextWait]_vars
    /\ WF_vars(WatcherNext) /\ WF_vars(EscNext) /\ WF_vars(MainNext)

\* ===================================================== the script revision
\* scripts/claude-code-speaker.py: execute_custom_command starts the TTS script
\* with Popen and returns; a reaper thread (_monitor_tts_process) waits for it.
\* The script has no chunks and no temp file of its own.
libOnly == <<fileVars, wchunk, wn, wproc, wtemp, synth, synth_failed, kcall,
             cleanupRuns, cleanupCalls>>

\* The script revision tells win32 from every other platform; the key
\* listener needs termios.
InitLegacy ==
    /\ InitCommon
    /\ ExtIdle
    /\ platform \in {"linux", "win32"}
    /\ pc = [t \in Threads |->
               IF t = W THEN "idle"
               ELSE IF t = E THEN (IF platform \in Posix THEN "e_idle" ELSE "e_off")
               ELSE "s_none"]

LegacyArrive ==
    /\ HostUp
    /\ arrived < MaxRecords
    /\ arrived' = arrived + 1
    /\ UNCHANGED <<extVars, hostVars, handled, ctlVars, slotVars, cleanup_done,
                   cleanup_lock, activeAtSignal, procVars, wmsg, cancelled,
                   legacyVars, libOnly>>

\* execute_custom_command: `if self.is_playing: self._kill_current_tts()`,
\* the flag read without the lock.
ExecuteCustomCommand ==
    /\ HostUp
    /\ pc[W] = "idle"
    /\ handled < arrived
    /\ wmsg' = handled + 1
    /\ IF is_playing
       THEN /\ pc' = [pc EXCEPT ![W] = "lk_lock"]
            /\ kret' = [kret EXCEPT ![W] = "l_launch"]
       ELSE /\ Goto(W, "l_launch")
            /\ UNCHANGED kret
    /\ UNCHANGED <<extVars, hostVars, logVars, slotVars, cleanup_done, cleanup_lock,
                   activeAtSignal, procVars, cancelled, legacyVars, libOnly>>

\* execute_custom_command: with self.process_lock: self.is_playing = True;
\* self.current_tts_process = subprocess.Popen(cmd, ...), and the reaper
\* thread is started. If Popen raises, is_playing is set to False and the slot
\* keeps its value.
LegacyLaunch ==
    /\ HostUp
    /\ pc[W] = "l_launch"
    /\ nextId < MaxLaunch
    /\ process_lock = NoThread
    /\ nextId' = nextId + 1
    /\ handled' = handled + 1
    /\ Goto(W, "idle")
    /\ \/ /\ is_playing' = TRUE
          /\ current_tts_process' = nextId'
          /\ pstate' = [pstate EXCEPT ![nextId'] = "running"]
          /\ pown' = [pown EXCEPT ![nextId'] = <<wmsg, 1>>]
          /\ mpc' = [mpc EXCEPT ![nextId'] = "m_read1"]
       \/ /\ is_playing' = FALSE
          /\ UNCHANGED <<current_tts_process, pstate, pown, mpc>>
    /\ UNCHANGED <<extVars, hostVars, arrived, kret, process_lock, cleanup_done,
                   cleanup_lock, activeAtSignal, wmsg, cancelled, mtarget,
                   libOnly>>

\* _monitor_tts_process: `if self.current_tts_process:`, read without the lock.
MonitorRead1(n) ==
    /\ HostUp
    /\ mpc[n] = "m_read1"
    /\ mpc' = [mpc EXCEPT ![n] = IF current_tts_process = None THEN "m_done"
                                 ELSE "m_read2"]
    /\ UNCHANGED <<extVars, hostVars, logVars, ctlVars, slotVars, cleanup_done,
                   cleanup_lock, activeAtSignal, procVars, wmsg, cancelled,
                   is_playing, mtarget, libOnly>>

\* _monitor_tts_process: self.current_tts_process.wait() reads the slot again
\* and waits on whatever handle it holds now; on None the AttributeError leads
\* to the except branch, which clears as well.
MonitorRead2(n) ==
    /\ HostUp
    /\ mpc[n] = "m_read2"
    /\ IF current_tts_process = None
       THEN /\ mpc' = [mpc EXCEPT ![n] = "m_clear"]
            /\ UNCHANGED mtarget
       ELSE /\ mpc' = [mpc EXCEPT ![n] = "m_wait"]
            /\ mtarget' = [mtarget EXCEPT ![n] = current_tts_process]
    /\ UNCHANGED <<extVars, hostVars, logVars, ctlVars, slotVars, cleanup_done,
                   cleanup_lock, activeAtSignal, procVars, wmsg, cancelled,
                   is_playing, libOnly>>

\* _monitor_tts_process: wait() returns when the process has ended.
MonitorWait(n) ==
    /\ HostUp
    /\ mpc[n] = "m_wait"
    /\ pstate[mtarget[n]] # "running"
    /\ mpc' = [mpc EXCEPT ![n] = "m_clear"]
    /\ mtarget' = [mtarget EXCEPT ![n] = None]
    /\ UNCHANGED <<extVars, hostVars, logVars, ctlVars, slotVars, cleanup_done,
                   cleanup_lock, activeAtSignal, procVars, wmsg, cancelled,
                   is_playing, libOnly>>

\* _monitor_tts_process: with self.process_lock: self.is_playing = False;
\* self.current_tts_process = None, whatever the slot holds.
MonitorClear(n) ==
    /\ HostUp
    /\ mpc[n] = "m_clear"
    /\ process_lock = NoThread
    /\ is_playing' = FALSE
    /\ current_tts_process' = None
    /\ mpc' = [mpc EXCEPT ![n] = "m_done"]
    /\ UNCHANGED <<extVars, hostVars, logVars, ctlVars, process_lock, cleanup_done,
                   cleanup_lock, activeAtSignal, procVars, wmsg, cancelled,
                   mtarget, libOnly>>

\* The innermost signal frame not yet in use, 0 if there is none.
FreeFrame ==
    IF \E i \in 1..MaxSignals : pc[Sig(i)] = "s_none"
    THEN CHOOSE i \in 1..MaxSignals :
             pc[Sig(i)] = "s_none" /\ \A j \in 1..(i - 1) : pc[Sig(j)] # "s_none"
    ELSE 0

\* _kill_current_tts (script revision): with self.process_lock:
\*     if self.current_tts_process and self.current_tts_process.poll() is None:
LegacyKillCheck(t) ==
    /\ CanRun(t)
    /\ pc[t] = "lk_lock"
    /\ process_lock = NoThread
    /\ process_lock' = t
    /\ Goto(t, IF HasActive(current_tts_process, pstate) THEN "lk_term"
                ELSE "lk_none")
    /\ UNCHANGED <<extVars, hostVars, logVars, kret, current_tts_process, cleanup_done,
                   cleanup_lock, activeAtSignal, procVars, wmsg, cancelled,
                   legacyVars, libOnly>>

\* Nothing to cancel: the lock is released, is_playing and the slot stay.
LegacyKillNone(t) ==
    /\ CanRun(t)
    /\ pc[t] = "lk_none"
    /\ process_lock' = NoThread
    /\ Goto(t, kret[t])
    /\ UNCHANGED <<extVars, hostVars, logVars, kret, current_tts_process, cleanup_done,
                   cleanup_lock, activeAtSignal, procVars, wmsg, cancelled,
                   legacyVars, libOnly>>

\* win32: terminate(). Otherwise os.killpg(os.getpgid(pid), SIGTERM): Popen was
\* called without a new session, so the group is the watcher's own and the
\* signal starts cleanup_handler on the main thread as well.
LegacyKillSignal(t) ==
    /\ CanRun(t)
    /\ pc[t] = "lk_term"
    /\ cancelled' = IF pstate[current_tts_process] = "running"
                    THEN cancelled \cup {current_tts_process} ELSE cancelled
    /\ IF platform # "win32" /\ FreeFrame # 0
       THEN /\ pc' = [pc EXCEPT ![t] = "lk_wait",
                                ![Sig(FreeFrame)] =
                                    IF cleanup_lock = NoThread THEN "lc_flag"
                                    ELSE "lc_lock"]
            /\ cleanup_lock' = IF cleanup_lock = NoThread THEN Sig(FreeFrame)
                               ELSE cleanup_lock
       ELSE /\ Goto(t, "lk_wait")
            /\ UNCHANGED cleanup_lock
    /\ UNCHANGED <<extVars, hostVars, logVars, kret, slotVars, cleanup_done,
                   activeAtSignal, procVars, wmsg, legacyVars, libOnly>>

\* wait(timeout=2); on TimeoutExpired kill() on win32, and elsewhere
\* os.killpg(pgid, SIGKILL), which ends every process of the group, the
\* watcher included.
LegacyKillWait(t) ==
    /\ CanRun(t)
    /\ pc[t] = "lk_wait"
    /\ \E r \in WaitOutcomes("popen", pstate[current_tts_process]) :
         IF r = "timeout" /\ platform # "win32"
         THEN /\ host' = "exited"
              /\ pstate' = [p \in Procs |-> IF pstate[p] = "running"
                                            THEN "exited" ELSE pstate[p]]
              /\ UNCHANGED pc
         ELSE /\ pstate' = [pstate EXCEPT ![current_tts_process] = "exited"]
              /\ Goto(t, "lk_clear")
              /\ UNCHANGED host
    /\ UNCHANGED <<extVars, platform, logVars, kret, slotVars, cleanup_done,
                   cleanup_lock, activeAtSignal, pown, nextId, wmsg, cancelled,
                   legacyVars, libOnly>>

\* self.is_playing = False; self.current_tts_process = None; the lock is
\* released and the call returns.
LegacyKillClear(t) ==
    /\ CanRun(t)
    /\ pc[t] = "lk_clear"
    /\ is_playing' = FALSE
    /\ current_tts_process' = None
    /\ process_lock' = NoThread
    /\ Goto(t, kret[t])
    /\ UNCHANGED <<extVars, hostVars, logVars, kret, cleanup_done, cleanup_lock,
                   activeAtSignal, procVars, wmsg, cancelled, mpc, mtarget,
                   libOnly>>

\* _esc_monitor (script revision): ESC is read; `if self.is_playing:`
\* self._kill_current_tts().
LegacyEscPress ==
    /\ HostUp
    /\ pc[E] = "e_idle"
    /\ is_playing
    /\ pc' = [pc EXCEPT ![E] = "lk_lock"]
    /\ kret' = [kret EXCEPT ![E] = "e_idle"]
    /\ UNCHANGED <<extVars, hostVars, logVars, slotVars, cleanup_done, cleanup_lock,
                   activeAtSignal, procVars, wmsg, cancelled, legacyVars,
                   libOnly>>

\* SIGINT or SIGTERM from outside: cleanup_handler(signum, frame) starts and
\* _cleanup_all_processes comes to `with self._cleanup_lock:`.
LegacySignal(i) ==
    /\ HostUp
    /\ pc[Sig(i)] = "s_none"
    /\ IF i = 1 THEN TRUE ELSE pc[Sig(i - 1)] # "s_none"
    /\ IF cleanup_lock = NoThread
       THEN cleanup_lock' = Sig(i) /\ Goto(Sig(i), "lc_flag")
       ELSE UNCHANGED cleanup_lock /\ Goto(Sig(i), "lc_lock")
    /\ activeAtSignal' = IF i = 1 THEN HasActive(current_tts_process, pstate)
                         ELSE activeAtSignal
    /\ UNCHANGED <<extVars, hostVars, logVars, kret, slotVars, cleanup_done,
                   procVars, wmsg, cancelled, legacyVars, libOnly>>

\* _cleanup_all_processes: `if self._cleanup_done: return`, else the flag is
\* set; the lock is released.
LegacyCleanupGuard(t) ==
    /\ CanRun(t)
    /\ pc[t] = "lc_flag"
    /\ cleanup_lock' = NoThread
    /\ cleanup_done' = TRUE
    /\ Goto(t, IF cleanup_done THEN "lc_exit" ELSE "lc_probe")
    /\ UNCHANGED <<extVars, hostVars, logVars, kret, slotVars, activeAtSignal,
                   procVars, wmsg, cancelled, legacyVars, libOnly>>

\* _cleanup_all_processes: `if ... self.current_tts_process:`
\* self._kill_current_tts()
LegacyCleanupProbe(t) ==
    /\ CanRun(t)
    /\ pc[t] = "lc_probe"
    /\ IF current_tts_process # None
       THEN /\ pc' = [pc EXCEPT ![t] = "lk_lock"]
            /\ kret' = [kret EXCEPT ![t] = "lc_group"]
       ELSE /\ Goto(t, "lc_group")
            /\ UNCHANGED kret
    /\ UNCHANGED <<extVars, hostVars, logVars, slotVars, cleanup_done, cleanup_lock,
                   activeAtSignal, procVars, wmsg, cancelled, legacyVars,
                   libOnly>>

\* _cleanup_all_processes: os.killpg(os.getpgid(os.getpid()), SIGTERM) ends
\* the children and the handler it starts in the watcher finds the guard set
\* and calls os._exit(0). On win32 os.getpgid does not exist, the error is
\* swallowed and cleanup_handler calls os._exit(0).
LegacyCleanupKillGroup(t) ==
    /\ CanRun(t)
    /\ pc[t] = "lc_group"
    /\ host' = "exited"
    /\ pstate' = [p \in Procs |->
                    IF platform # "win32" /\ pstate[p] = "running"
                    THEN "exited" ELSE pstate[p]]
    /\ UNCHANGED <<extVars, platform, logVars, ctlVars, slotVars, cleanup_done,
                   cleanup_lock, activeAtSignal, pown, nextId, wmsg, cancelled,
                   legacyVars, libOnly>>

\* cleanup_handler behind a guard that was already set: os._exit(0).
LegacyExit(t) ==
    /\ CanRun(t)
    /\ pc[t] = "lc_exit"
    /\ host' = "exited"
    /\ UNCHANGED <<extVars, platform, logVars, ctlVars, slotVars, cleanup_done,
                   cleanup_lock, activeAtSignal, procVars, wmsg, cancelled,
                   legacyVars, libOnly>>

NextLegacy ==
    \/ LegacyArrive
    \/ \E p \in Procs : PlayerExits(p)
    \/ ExecuteCustomCommand
    \/ LegacyLaunch
    \/ \E n \in Procs : MonitorRead1(n)
    \/ \E n \in Procs : MonitorRead2(n)
    \/ \E n \in Procs : MonitorWait(n)
    \/ \E n \in Procs : MonitorClear(n)
    \/ \E t \in Threads : LegacyKillCheck(t)
    \/ \E t \in Threads : LegacyKillNone(t)
    \/ \E t \in Threads : LegacyKillSignal(t)
    \/ \E t \in Threads : LegacyKillWait(t)
    \/ \E t \in Threads : LegacyKillClear(t)
    \/ LegacyEscPress
    \/ \E i \in 1..MaxSignals : LegacySignal(i)
    \/ \E t \in SigFrames : LegacyCleanupGuard(t)
    \/ \E t \in SigFrames : LegacyCleanupProbe(t)
    \/ \E t \in SigFrames : LegacyCleanupKillGroup(t)
    \/ \E t \in SigFrames : LegacyExit(t)

SpecLegacy == InitLegacy /\ [][NextLegacy]_vars

\* ======================================================= the text splitter
\* aibis_cloud_tools/utils.py: split_text_smart. A text is a sequence of
\* characters: a letter, a space, a line feed and the full stop "。".
Chars == {"a", " ", "\n", "."}
\* str.strip() removes white space at both ends.
Whitespace == {" ", "\n"}
\* `if char in '。！？\n'`: the characters that end a sentence.
Terminators == {".", "\n"}

Texts == UNION {[1..n -> Chars] : n \in 0..MaxTextLen}

RECURSIVE LStrip(_)
LStrip(s) == IF s # <<>> /\ Head(s) \in Whitespace THEN LStrip(Tail(s)) ELSE s

RECURSIVE RStrip(_)
RStrip(s) ==
    IF s # <<>> /\ s[Len(s)] \in Whitespace
    THEN RStrip(SubSeq(s, 1, Len(s) - 1)) ELSE s

\* str.strip()
Strip(s) == RStrip(LStrip(s))

\* for char in text: temp_sentence += char; at a terminator
\* sentences.append(temp_sentence.strip()); after the loop the rest is
\* appended if its strip() is not empty.
RECURSIVE SplitSentences(_, _, _)
SplitSentences(rest, temp_sentence, sentences) ==
    IF rest = <<>>
    THEN IF Strip(temp_sentence) # <<>>
         THEN Append(sentences, Strip(temp_sentence)) ELSE sentences
    ELSE IF Head(rest) \in Terminators
         THEN SplitSentences(Tail(rest), <<>>,
                  Append(sentences, Strip(Append(temp_sentence, Head(rest)))))
         ELSE SplitSentences(Tail(rest), Append(temp_sentence, Head(rest)),
                  sentences)

\* while len(sentence) > max_chars: chunks.append(sentence[:max_chars]);
\* sentence = sentence[max_chars:]. The result is the list of chunks and the
\* rest of the sentence.
RECURSIVE ForcedSplit(_, _, _)
ForcedSplit(sentence, n, acc) ==
    IF Len(sentence) > n
    THEN ForcedSplit(SubSeq(sentence, n + 1, Len(sentence)), n,
                     Append(acc, SubSeq(sentence, 1, n)))
    ELSE [chunks |-> acc, rest |-> sentence]

\* A sentence is added to every chunk, whatever its length.
FitsAlways(current_chunk, sentence, n) == TRUE

\* elif len(current_chunk + sentence) <= max_chars
Fits(current_chunk, sentence, n) == Len(current_chunk) + Len(sentence) <= n

\* chunks.append(current_chunk.strip()) under `if current_chunk:`
Flush(acc, current_chunk) ==
    IF current_chunk # <<>> THEN Append(acc, Strip(current_chunk)) ELSE acc

\* for sentence in sentences: ... and, after the loop, the last chunk under
\* `if current_chunk.strip():`.
RECURSIVE Combine(_, _, _, _)
Combine(sentences, n, acc, current_chunk) ==
    IF sentences = <<>>
    THEN IF Strip(current_chunk) # <<>>
         THEN Append(acc, Strip(current_chunk)) ELSE acc
    ELSE LET sentence == Head(sentences)
             forced == ForcedSplit(sentence, n, Flush(acc, current_chunk))
         IN  IF Len(sentence) > n
             THEN Combine(Tail(sentences), n, forced.chunks, forced.rest)
             ELSE IF Fits(current_chunk, sentence, n)
                  THEN Combine(Tail(sentences), n, acc,
                               current_chunk \o sentence)
                  ELSE Combine(Tail(sentences), n, Flush(acc, current_chunk),
                               sentence)

\* A short text returned without its surrounding white space.
ShortResultStripped(t) == <<Strip(t)>>

\* `if len(text) <= max_chars: return [text]`
ShortResult(t) == <<t>>

split_text_smart(t, n) ==
    IF t = <<>> THEN <<>>
    ELSE IF Len(t) <= n THEN ShortResult(t)
    ELSE Combine(SplitSentences(t, <<>>, <<>>), n, <<>>, <<>>)

\* "".join(chunks)
RECURSIVE Join(_)
Join(cs) == IF cs = <<>> THEN <<>> ELSE Head(cs) \o Join(Tail(cs))

\* The playback model at rest.
PlayQuiet ==
    /\ InitCommon
    /\ pc = [t \in Threads |->
               IF t = W THEN "idle" ELSE IF t = E THEN "e_idle" ELSE "s_none"]
PlayIdle == PlayQuiet /\ platform = "darwin"

InitSplit ==
    /\ PlayIdle /\ SayIdle /\ TailIdle /\ HttpIdle /\ McpIdle
    /\ SplitQuiet
    /\ text \in Texts
    /\ max_chars \in 1..MaxChars

\* chunks = split_text_smart(text, max_chars)
SplitTextSmart ==
    /\ ~split_done
    /\ chunks' = split_text_smart(text, max_chars)
    /\ split_done' = TRUE
    /\ UNCHANGED <<playVars, sayVars, tailVars, httpVars, mcpVars, text,
                   max_chars, sentences_left, cur_sentence, cur_chunk, split_pc>>

NextSplit == SplitTextSmart

SpecSplit == InitSplit /\ [][NextSplit]_vars

\* ------------------------------------------ the splitter, loop by loop
\* split_text_smart with the max_chars say.py passes on from --max-chars
\* (type=int, no check): zero and negative values as well.
MaxCharsBelow == 2

\* The chunks list is followed up to this length; for max_chars >= 1 it
\* never has more entries than the text has characters.
MaxLoopChunks == MaxTextLen + 1

\* s[:n] and s[n:] of Python, for any integer n.
SliceTo(s, n) ==
    IF n >= 0 THEN SubSeq(s, 1, IF n < Len(s) THEN n ELSE Len(s))
    ELSE SubSeq(s, 1, IF Len(s) + n > 0 THEN Len(s) + n ELSE 0)
SliceFrom(s, n) ==
    IF n >= 0 THEN SubSeq(s, (IF n < Len(s) THEN n ELSE Len(s)) + 1, Len(s))
    ELSE SubSeq(s, (IF Len(s) + n > 0 THEN Len(s) + n ELSE 0) + 1, Len(s))

InitSplitLoop ==
    /\ PlayIdle /\ SayIdle /\ TailIdle /\ HttpIdle /\ McpIdle
    /\ SplitQuiet
    /\ text \in Texts
    /\ max_chars \in (0 - MaxCharsBelow)..MaxChars

\* The two early returns, and the loop `for char in text` that builds
\* sentences.
SplitStart ==
    /\ split_pc = "start"
    /\ IF text = <<>> \/ Len(text) <= max_chars
       THEN /\ chunks' = (IF text = <<>> THEN <<>> ELSE ShortResult(text))
            /\ split_done' = TRUE
            /\ split_pc' = "done"
            /\ UNCHANGED sentences_left
       ELSE /\ sentences_left' = SplitSentences(text, <<>>, <<>>)
            /\ split_pc' = "for"
            /\ UNCHANGED <<chunks, split_done>>
    /\ UNCHANGED <<playVars, sayVars, tailVars, httpVars, mcpVars, text,
                   max_chars, cur_sentence, cur_chunk>>

\* One turn of `for sentence in sentences`, up to the while loop of a
\* sentence that is too long.
SplitNextSentence ==
    /\ split_pc = "for"
    /\ sentences_left # <<>>
    /\ cur_sentence' = Head(sentences_left)
    /\ sentences_left' = Tail(sentences_left)
    /\ IF Len(cur_sentence') > max_chars
       THEN /\ chunks' = Flush(chunks, cur_chunk)
            /\ cur_chunk' = <<>>
            /\ split_pc' = "while"
       ELSE IF Fits(cur_chunk, cur_sentence', max_chars)
            THEN /\ cur_chunk' = cur_chunk \o cur_sentence'
                 /\ UNCHANGED <<chunks, split_pc>>
            ELSE /\ chunks' = Flush(chunks, cur_chunk)
                 /\ cur_chunk' = cur_sentence'
                 /\ UNCHANGED split_pc
    /\ UNCHANGED <<playVars, sayVars, tailVars, httpVars, mcpVars, text,
                   max_chars, split_done>>

\* One turn of `while len(sentence) > max_chars`:
\* chunks.append(sentence[:max_chars]); sentence = sentence[max_chars:]
ForcedSplitStep ==
    /\ split_pc = "while"
    /\ Len(cur_sentence) > max_chars
    /\ Len(chunks) < MaxLoopChunks
    /\ chunks' = Append(chunks, SliceTo(cur_sentence, max_chars))
    /\ cur_sentence' = SliceFrom(cur_sentence, max_chars)
    /\ UNCHANGED <<playVars, sayVars, tailVars, httpVars, mcpVars, text,
                   max_chars, split_done, sentences_left, cur_chunk, split_pc>>

\* The while loop is left: `if sentence: current_chunk = sentence`.
ForcedSplitEnd ==
    /\ split_pc = "while"
    /\ Len(cur_sentence) <= max_chars
    /\ cur_chunk' = (IF cur_sentence # <<>> THEN cur_sentence ELSE cur_chunk)
    /\ split_pc' = "for"
    /\ UNCHANGED <<playVars, sayVars, tailVars, httpVars, mcpVars, text,
                   max_chars, chunks, split_done, sentences_left, cur_sentence>>

\* After the for loop: the last chunk under `if current_chunk.strip():`,
\* and `return chunks`.
SplitReturn ==
    /\ split_pc = "for"
    /\ sentences_left = <<>>
    /\ chunks' = (IF Strip(cur_chunk) # <<>>
                  THEN Append(chunks, Strip(cur_chunk)) ELSE chunks)
    /\ split_done' = TRUE
    /\ split_pc' = "done"
    /\ UNCHANGED <<playVars, sayVars, tailVars, httpVars, mcpVars, text,
                   max_chars, sentences_left, cur_sentence, cur_chunk>>

NextSplitLoop ==
    \/ SplitStart
    \/ SplitNextSentence
    \/ ForcedSplitStep
    \/ ForcedSplitEnd
    \/ SplitReturn

\* The interpreter keeps running the call.
SpecSplitLoop ==
    InitSplitLoop /\ [][NextSplitLoop]_vars /\ WF_vars(NextSplitLoop)

\* For max_chars >= 1 the loops return what split_text_smart(t, n) gives.
LoopAgreesWithOperator ==
    (split_done /\ max_chars >= 1) => chunks = split_text_smart(text, max_chars)

\* ========================================================= the log tailer
\* scripts/claude_code_speaker.py: process_new_lines and
\* handle_claude_response. A line of the watched file is described by what
\* json.loads makes of it and by the fields the watcher looks at:
\*   syntax   "blank", "invalid" (JSONDecodeError), "array" (JSON, but no
\*            object) or "object"
\*   type     data.get('type')
\*   content  "missing" (no message.content[0].text) or "text"
\*   text     message.content[0].text
Line(syn, ty, con, tx) == [syntax |-> syn, type |-> ty, content |-> con, text |-> tx]

LineSamples ==
    { Line("blank", "none", "missing", <<>>),
      Line("invalid", "none", "missing", <<>>),
      Line("array", "none", "missing", <<>>),
      Line("object", "user", "text", <<"a">>),
      Line("object", "assistant", "missing", <<>>),
      Line("object", "assistant", "text", <<>>),
      Line("object", "assistant", "text", <<"a">>) }

\* The values of os.getenv("AIVIS_API_KEY"): None, "" or a key.
ApiKeys == {"unset", "empty", "set"}

\* Only an unset variable counts as a missing key.
ApiKeyUnset(key) == key = "unset"

\* handle_claude_response_tts: `if not self.api_key:`
ApiKeyMissing(key) == key \in {"unset", "empty"}

\* mcp_server.get_tts_client: api_key = os.getenv("AIVIS_API_KEY", "");
\* `if not api_key: raise ValueError(...)`, else the client.
GetTtsClient(key) == IF key \in {"unset", "empty"} THEN "ValueError" ELSE "client"

\* process_new_lines: data.get('type') on a value that is no dict raises
\* AttributeError, which only the outer `except Exception` catches.
LineRaises(l) == l.syntax = "array"

\* The handler is called for objects of every type.
CallsHandlerAnyType(l) == l.syntax = "object"

\* process_new_lines: `if data.get('type') == 'assistant':`
\* self.handle_claude_response(data, file_path). Blank lines are skipped and
\* a JSONDecodeError is caught inside the loop.
CallsHandler(l) == l.syntax = "object" /\ l.type = "assistant"

\* _has_valid_text_content: message.content[0] is a dict with a key 'text'.
HasValidTextContent(l) == l.content = "text"

\* handle_claude_response and handle_claude_response_tts for one record: a
\* cancel if a player is active, and with an API key one synthesis request
\* and one player per chunk of split_text_smart(content, MAX_TEXT_LENGTH).
\* (MAX_TEXT_LENGTH is taken as MaxChars.)
HandleEffects(l, key, active) ==
    IF ~HasValidTextContent(l) THEN {}
    ELSE (IF active THEN {"cancel"} ELSE {})
         \cup (IF ApiKeyMissing(key) \/ split_text_smart(l.text, MaxChars) = <<>>
               THEN {} ELSE {"synth", "play"})

\* process_new_lines: the line at which the loop is left by an exception,
\* Len(ls) + 1 if it runs to the end.
StopLine(ls, last) ==
    IF \E i \in (last + 1)..Len(ls) : LineRaises(ls[i])
    THEN CHOOSE i \in (last + 1)..Len(ls) :
             /\ LineRaises(ls[i])
             /\ \A j \in (last + 1)..(i - 1) : ~LineRaises(ls[j])
    ELSE Len(ls) + 1

\* process_new_lines: the lines for which handle_claude_response is called.
LinesHandled(ls, last) ==
    {i \in (last + 1)..(StopLine(ls, last) - 1) : CallsHandler(ls[i])}

\* process_new_lines: self.processed_lines[file_key] = current_line_num,
\* reached only if the loop was not left by an exception.
ProcessedAfter(ls, last) ==
    IF StopLine(ls, last) <= Len(ls) THEN last ELSE Len(ls)

\* __init__: self.api_key = os.getenv("AIVIS_API_KEY"), and
\* _initialize_processed_lines counts the lines the file has.
InitTail ==
    /\ PlayIdle /\ SayIdle /\ SplitIdle /\ HttpIdle /\ McpIdle
    /\ api_key \in ApiKeys
    /\ lines \in UNION {[1..n -> LineSamples] : n \in 0..1}
    /\ initial_count = Len(lines)
    /\ processed_lines = Len(lines)
    /\ handledCount = [i \in 1..MaxLines |-> 0]
    /\ effects = [i \in 1..MaxLines |-> {}]
    /\ caughtUp = FALSE
    /\ eventsSeen = 0
    /\ client_result = "none"

\* A line is appended to the watched file.
AppendLine ==
    /\ Len(lines) < MaxLines
    /\ \E l \in LineSamples : lines' = Append(lines, l)
    /\ caughtUp' = FALSE
    /\ UNCHANGED <<playVars, sayVars,
                   splitVars, httpVars, mcpVars, initial_count,
                   processed_lines, handledCount, effects, eventsSeen,
                   api_key, client_result>>

\* on_modified -> process_new_lines(event.src_path), run to its end on the
\* dispatch thread.
OnModified ==
    /\ eventsSeen < MaxEvents
    /\ eventsSeen' = eventsSeen + 1
    /\ handledCount' = [i \in 1..MaxLines |->
                          IF i \in LinesHandled(lines, processed_lines)
                          THEN handledCount[i] + 1 ELSE handledCount[i]]
    /\ effects' = [i \in 1..MaxLines |->
                     IF i \in LinesHandled(lines, processed_lines)
                     THEN effects[i] \cup
                          HandleEffects(lines[i], api_key,
                                        HasActive(current_tts_process, pstate))
                     ELSE effects[i]]
    /\ processed_lines' = ProcessedAfter(lines, processed_lines)
    /\ caughtUp' = TRUE
    /\ UNCHANGED <<playVars, sayVars, splitVars, httpVars, mcpVars, lines,
                   initial_count, api_key, client_result>>

\* The MCP server, started with the same environment, calls get_tts_client().
CallGetTtsClient ==
    /\ client_result = "none"
    /\ client_result' = GetTtsClient(api_key)
    /\ UNCHANGED <<playVars, sayVars, splitVars, httpVars, mcpVars, lines,
                   initial_count, processed_lines, handledCount, effects,
                   caughtUp, eventsSeen, api_key>>

NextTail ==
    \/ AppendLine
    \/ OnModified
    \/ CallGetTtsClient

SpecTail == InitTail /\ [][NextTail]_vars

\* ==================================================== the synthesis call
\* aibis_cloud_tools/tts.py: synthesize_speech and _handle_http_error.
StatusCodes == {200, 400, 401, 404, 429, 500, 503}
ErrorCodes == StatusCodes \ {200}

Bodies ==
    {Body(k, 200) : k \in {"audio", "empty", "brace", "json_other"}}
    \cup {Body("json_error", e) : e \in ErrorCodes}

\* _handle_http_error: error_messages.get(status_code, "API エラーが発生しました:
\* HTTP ..."), the fixed message per status code.
ErrorCategory(code) ==
    CASE code = 503 -> "service_unavailable"
      [] code = 429 -> "rate_limit"
      [] code = 401 -> "authentication"
      [] code = 400 -> "bad_request"
      [] code = 500 -> "server_error"
      [] OTHER      -> "http_error"

\* synthesize_speech: raise Exception(f"API Error: {status_code} - {detail}")
\* for an error object in a 200 response, whatever its code.
EmbeddedCategory(code) == "api_error"

\* synthesize_speech after requests.post: a status other than 200 goes to
\* _handle_http_error, which raises; a body that starts with { and parses
\* to an object with status_code and detail raises; everything else is
\* returned as audio_data.
SynthesizeResult(code, b) ==
    IF code # 200 THEN Outcome("raise", ErrorCategory(code))
    ELSE IF b.kind = "json_error"
         THEN Outcome("raise", EmbeddedCategory(b.embedded))
         ELSE Outcome("audio", "none")

InitHttp ==
    /\ PlayIdle /\ SayIdle /\ SplitIdle /\ TailIdle /\ McpIdle
    /\ status_code \in StatusCodes
    /\ body \in Bodies
    /\ outcome = NoOutcome

\* client.synthesize_speech(text, model_uuid) with the response drawn in Init.
SynthesizeSpeech ==
    /\ outcome = NoOutcome
    /\ outcome' = SynthesizeResult(status_code, body)
    /\ UNCHANGED <<playVars, sayVars,
                   splitVars, tailVars, mcpVars, status_code, body>>

NextHttp == SynthesizeSpeech

SpecHttp == InitHttp /\ [][NextHttp]_vars

\* ================================================ the MCP speak handler
\* scripts/mcp_server.py: handle_call_tool("speak", arguments).
\* split_text_smart(segment["text"], 3000): the chunk limit of the handler.
SpeakMaxChars == 2

\* A text longer than the chunk limit, made of one character.
LongText(c) == [k \in 1..(SpeakMaxChars + 1) |-> c]

\* The texts of the segments of a request: empty, short, short and blank,
\* longer than the limit, longer than the limit and blank.
SegmentTexts == {<<>>, <<"a">>, <<" ">>, LongText("a"), LongText(" ")}

\* speech_segments as built from arguments: one segment for "text", one per
\* element for "speaks", none when neither key is given.
Requests == UNION {[1..n -> SegmentTexts] : n \in 0..MaxSegments}

\* What playing a chunk does: play_audio_async raises ("launch_error"),
\* proc.wait() raises ("wait_error"), or proc.wait() returns after the player
\* has exited with code 0 ("completed") or another code ("exit_nonzero").
PlayOutcomes == {"completed", "exit_nonzero", "launch_error", "wait_error"}

\* A playback failure reported as a finished playback.
PlayResultCompleted(out) ==
    [status |-> "completed", message |-> "playback completed"]

\* play_result of a chunk. The value proc.wait() returns is not looked at.
PlayResult(out) ==
    CASE out \in {"completed", "exit_nonzero"} ->
           [status |-> "completed", message |-> "playback completed"]
      [] out = "wait_error" ->
           [status |-> "error", message |-> "playback wait failed"]
      [] OTHER ->
           [status |-> "error", message |-> "playback failed"]

\* chunk_result and segment_result.
ChunkResult(idx, chunk_text, out) ==
    [chunk |-> idx, text |-> chunk_text, playback_result |-> PlayResult(out)]
SegmentResult(i, segment_text, n, cs) ==
    [segment |-> i, text |-> segment_text, chunks_count |-> n, chunks |-> cs]

\* One entry of synth_calls, the calls made on the client for a chunk:
\* get_tts_client raised ("no_client"), synthesize_speech raised ("raise")
\* or returned audio that was then played with the outcome play.
Call(i, idx, chunk_text, syn, out) ==
    [segment |-> i, chunk |-> idx, text |-> chunk_text, synth |-> syn,
     play |-> out]

InitMcp ==
    /\ PlayIdle /\ SayIdle /\ SplitIdle /\ TailQuiet /\ HttpIdle
    /\ api_key \in ApiKeys
    /\ speech_segments \in Requests
    /\ mcp_pc = "idle"
    /\ seg_i = 0 /\ chunk_idx = 0
    /\ text_chunks = <<>>
    /\ chunk_results = <<>>
    /\ results = <<>>
    /\ synth_calls = <<>>
    /\ final_result = NoResult

\* if not speech_segments: raise ValueError, caught by the outer handler.
CallToolNoText ==
    /\ mcp_pc = "idle"
    /\ speech_segments = <<>>
    /\ mcp_pc' = "returned"
    /\ final_result' = FinalResult(FALSE, "No text provided", <<>>)
    /\ UNCHANGED <<playVars, sayVars,
                   splitVars, tailVars, httpVars, speech_segments,
                   seg_i, chunk_idx, text_chunks, chunk_results, results,
                   synth_calls>>

\* results = []; the loop over speech_segments starts.
CallTool ==
    /\ mcp_pc = "idle"
    /\ speech_segments # <<>>
    /\ mcp_pc' = "segment"
    /\ seg_i' = 1
    /\ UNCHANGED <<playVars, sayVars,
                   splitVars, tailVars, httpVars, speech_segments,
                   chunk_idx, text_chunks, chunk_results, results,
                   synth_calls, final_result>>

\* if not segment["text"]: continue
SkipEmptySegment ==
    /\ mcp_pc = "segment"
    /\ seg_i <= Len(speech_segments)
    /\ speech_segments[seg_i] = <<>>
    /\ seg_i' = seg_i + 1
    /\ UNCHANGED <<playVars, sayVars,
                   splitVars, tailVars, httpVars, speech_segments,
                   mcp_pc, chunk_idx, text_chunks, chunk_results, results,
                   synth_calls, final_result>>

\* text_chunks = split_text_smart(segment["text"], 3000); chunk_results = []
StartSegment ==
    /\ mcp_pc = "segment"
    /\ seg_i <= Len(speech_segments)
    /\ speech_segments[seg_i] # <<>>
    /\ text_chunks' = split_text_smart(speech_segments[seg_i], SpeakMaxChars)
    /\ chunk_results' = <<>>
    /\ chunk_idx' = 1
    /\ mcp_pc' = "chunk"
    /\ UNCHANGED <<playVars, sayVars,
                   splitVars, tailVars, httpVars, speech_segments,
                   seg_i, results, synth_calls, final_result>>

\* tts_client = get_tts_client() raises ValueError: the outer handler
\* returns error_result.
ChunkNoClient ==
    /\ mcp_pc = "chunk"
    /\ chunk_idx <= Len(text_chunks)
    /\ GetTtsClient(api_key) = "ValueError"
    /\ synth_calls' = Append(synth_calls,
           Call(seg_i, chunk_idx, text_chunks[chunk_idx], "no_client", "none"))
    /\ mcp_pc' = "returned"
    /\ final_result' = FinalResult(FALSE, "AIVIS_API_KEY required", <<>>)
    /\ UNCHANGED <<playVars, sayVars,
                   splitVars, tailVars, httpVars, speech_segments,
                   seg_i, chunk_idx, text_chunks, chunk_results, results>>

\* tts_client.synthesize_speech(...) raises: the outer handler returns
\* error_result.
ChunkSynthesisFails ==
    /\ mcp_pc = "chunk"
    /\ chunk_idx <= Len(text_chunks)
    /\ GetTtsClient(api_key) = "client"
    /\ synth_calls' = Append(synth_calls,
           Call(seg_i, chunk_idx, text_chunks[chunk_idx], "raise", "none"))
    /\ mcp_pc' = "returned"
    /\ final_result' = FinalResult(FALSE, "synthesis failed", <<>>)
    /\ UNCHANGED <<playVars, sayVars,
                   splitVars, tailVars, httpVars, speech_segments,
                   seg_i, chunk_idx, text_chunks, chunk_results, results>>

\* The chunk is synthesized and played: play_audio_async, proc.wait(), the
\* removal of the temporary file, chunk_results.append(chunk_result).
ChunkPlayed ==
    /\ mcp_pc = "chunk"
    /\ chunk_idx <= Len(text_chunks)
    /\ GetTtsClient(api_key) = "client"
    /\ \E out \in PlayOutcomes :
         /\ synth_calls' = Append(synth_calls,
                Call(seg_i, chunk_idx, text_chunks[chunk_idx], "audio", out))
         /\ chunk_results' = Append(chunk_results,
                ChunkResult(chunk_idx, text_chunks[chunk_idx], out))
    /\ chunk_idx' = chunk_idx + 1
    /\ UNCHANGED <<playVars, sayVars,
                   splitVars, tailVars, httpVars, speech_segments,
                   mcp_pc, seg_i, text_chunks, results, final_result>>

\* results.append(segment_result) after the last chunk of the segment.
EndSegment ==
    /\ mcp_pc = "chunk"
    /\ chunk_idx > Len(text_chunks)
    /\ results' = Append(results,
           SegmentResult(seg_i, speech_segments[seg_i], Len(text_chunks),
                         chunk_results))
    /\ seg_i' = seg_i + 1
    /\ mcp_pc' = "segment"
    /\ UNCHANGED <<playVars, sayVars,
                   splitVars, tailVars, httpVars, speech_segments,
                   chunk_idx, text_chunks, chunk_results, synth_calls,
                   final_result>>

\* final_result = {"success": True, "segments_count": len(results), ...}
ReturnResult ==
    /\ mcp_pc = "segment"
    /\ seg_i > Len(speech_segments)
    /\ final_result' = FinalResult(TRUE, "none", results)
    /\ mcp_pc' = "returned"
    /\ UNCHANGED <<playVars, sayVars,
                   splitVars, tailVars, httpVars, speech_segments,
                   seg_i, chunk_idx, text_chunks, chunk_results, results,
                   synth_calls>>

NextMcp ==
    \/ CallToolNoText
    \/ CallTool
    \/ SkipEmptySegment
    \/ StartSegment
    \/ ChunkNoClient
    \/ ChunkSynthesisFails
    \/ ChunkPlayed
    \/ EndSegment
    \/ ReturnResult

SpecMcp == InitMcp /\ [][NextMcp]_vars

\* The chunk results written so far, finished segments first.
RECURSIVE ChunksOf(_)
ChunksOf(rs) ==
    IF rs = <<>> THEN <<>> ELSE Head(rs).chunks \o ChunksOf(Tail(rs))
AllChunkResults ==
    ChunksOf(results) \o (IF mcp_pc = "chunk" THEN chunk_results ELSE <<>>)

\* The indexes of the segments of a request whose text is not empty, and
\* the segment indexes of a sequence of calls or of segment results, each
\* once, in order.
RECURSIVE NonEmptySegments(_, _)
NonEmptySegments(segs, i) ==
    IF i > Len(segs) THEN <<>>
    ELSE (IF segs[i] # <<>> THEN <<i>> ELSE <<>>)
         \o NonEmptySegments(segs, i + 1)
RECURSIVE SegmentsIn(_)
SegmentsIn(rs) ==
    IF rs = <<>> THEN <<>>
    ELSE LET rest == SegmentsIn(Tail(rs))
         IN  IF rest # <<>> /\ Head(rest) = Head(rs).segment THEN rest
             ELSE <<Head(rs).segment>> \o rest

\* The chunk texts a request is to be synthesized as, in order.
RECURSIVE ExpectedChunks(_, _)
ExpectedChunks(segs, i) ==
    IF i > Len(segs) THEN <<>>
    ELSE (IF segs[i] = <<>> THEN <<>>
          ELSE split_text_smart(segs[i], SpeakMaxChars))
         \o ExpectedChunks(segs, i + 1)

\* ================================================ the command-line tool
\* scripts/say.py, the processing of one chunk: with --realtime
\* client.synthesize_and_stream, otherwise client.synthesize_speech and
\* client.play_audio (aibis_cloud_tools/tts.py).
MaxStreamChunks == 5

\* MIN_BUFFER_SIZE = 32 * 1024 in chunks of iter_content(chunk_size=8192).
StartThreshold == 4

OutputFormats == {"mp3", "wav"}

StreamBodies ==
    {StreamBody("audio", n) : n \in 0..MaxStreamChunks}
    \cup {StreamBody("json_error", 1), StreamBody("http_error", 0)}

\* synthesize_and_stream: the temp file is prepared for
\* enable_realtime_play and output_format == "mp3" and sys.platform == "darwin".
StreamsToPlayer(enabled, fmt, plat) ==
    enabled /\ fmt = "mp3" /\ plat = "darwin"

\* synthesize_and_stream: afplay is started when
\* len(audio_data) >= MIN_BUFFER_SIZE and not audio_player.
StartsPlayer(received, player) ==
    received >= StartThreshold /\ player = "none"

\* play_audio: the platforms with a branch that plays.
PlayAudioSupported == {"darwin", "linux", "win32"}

\* play_audio, `finally: os.unlink(temp_file_path)`: it runs on every way
\* out of the try statement, the `return temp_file_path` of the unsupported
\* platform included.
TempFileAfterPlayAudio(plat) == FALSE

\* play_audio: the value returned when nothing was raised.
PlayAudioReturns(plat) ==
    IF plat \in PlayAudioSupported THEN "None" ELSE "path"

InitSay ==
    /\ PlayQuiet /\ SplitIdle /\ TailIdle /\ HttpIdle /\ McpIdle
    /\ platform \in Platforms
    /\ realtime \in BOOLEAN
    /\ no_wait \in BOOLEAN
    /\ output_format \in OutputFormats
    /\ response_body \in StreamBodies
    /\ audio_data = 0
    /\ temp_file_path = "none"
    /\ temp_exists = FALSE
    /\ audio_player = "none"
    /\ enable_realtime_play = TRUE
    /\ say_pc = "call"
    /\ say_result = "pending"

\* synthesize_and_stream up to the loop over the response: a status other
\* than 200 raises; otherwise the temp file is made, and when that fails the
\* realtime playback is switched off.
StreamPrepare ==
    /\ say_pc = "call"
    /\ realtime
    /\ IF response_body.kind = "http_error"
       THEN /\ say_pc' = "done"
            /\ say_result' = "raised"
            /\ UNCHANGED <<temp_file_path, temp_exists, enable_realtime_play>>
       ELSE /\ say_pc' = "recv"
            /\ UNCHANGED say_result
            /\ IF StreamsToPlayer(enable_realtime_play, output_format, platform)
               THEN \/ /\ temp_file_path' = "path"
                       /\ temp_exists' = TRUE
                       /\ UNCHANGED enable_realtime_play
                    \/ /\ enable_realtime_play' = FALSE
                       /\ UNCHANGED <<temp_file_path, temp_exists>>
               ELSE UNCHANGED <<temp_file_path, temp_exists,
                                enable_realtime_play>>
    /\ UNCHANGED <<playVars, splitVars, tailVars, httpVars, mcpVars, realtime,
                   no_wait, output_format, response_body, audio_data,
                   audio_player>>

\* One turn of `for chunk in response.iter_content(chunk_size=8192)`: the
\* chunk is added to audio_data and, with a temp file, written to it; afplay
\* is started on the file once MIN_BUFFER_SIZE bytes are there. When Popen
\* raises, enable_realtime_play becomes False and the loop goes on.
StreamReceive ==
    /\ say_pc = "recv"
    /\ audio_data < response_body.size
    /\ audio_data' = audio_data + 1
    /\ IF temp_file_path = "path" /\ StartsPlayer(audio_data', audio_player)
       THEN \/ /\ audio_player' = "running"
               /\ UNCHANGED enable_realtime_play
            \/ /\ enable_realtime_play' = FALSE
               /\ UNCHANGED audio_player
       ELSE UNCHANGED <<audio_player, enable_realtime_play>>
    /\ UNCHANGED <<playVars, splitVars, tailVars, httpVars, mcpVars, realtime,
                   no_wait, output_format, response_body, temp_file_path,
                   temp_exists, say_pc, say_result>>

\* iter_content raises (the connection breaks): the exception leaves
\* synthesize_and_stream.
StreamBroken ==
    /\ say_pc = "recv"
    /\ audio_data < response_body.size
    /\ say_pc' = "done"
    /\ say_result' = "raised"
    /\ UNCHANGED <<playVars, splitVars, tailVars, httpVars, mcpVars, realtime,
                   no_wait, output_format, response_body, audio_data,
                   temp_file_path, temp_exists, audio_player,
                   enable_realtime_play>>

\* afplay comes to the end of the file while the call is in progress.
StreamPlayerExits ==
    /\ say_pc = "recv"
    /\ audio_player = "running"
    /\ audio_player' = "exited"
    /\ UNCHANGED <<playVars, splitVars, tailVars, httpVars, mcpVars, realtime,
                   no_wait, output_format, response_body, audio_data,
                   temp_file_path, temp_exists, enable_realtime_play, say_pc,
                   say_result>>

\* After the loop: an error object in the body raises
\* Exception("API Error: ...").
StreamApiError ==
    /\ say_pc = "recv"
    /\ audio_data = response_body.size
    /\ response_body.kind = "json_error"
    /\ say_pc' = "done"
    /\ say_result' = "raised"
    /\ UNCHANGED <<playVars, splitVars, tailVars, httpVars, mcpVars, realtime,
                   no_wait, output_format, response_body, audio_data,
                   temp_file_path, temp_exists, audio_player,
                   enable_realtime_play>>

\* After the loop: `if audio_player:` and not no_wait, the player is waited
\* for (terminate and kill after the timeout) and the finally clause unlinks
\* the temp file; then `return audio_data`.
StreamReturn ==
    /\ say_pc = "recv"
    /\ audio_data = response_body.size
    /\ response_body.kind # "json_error"
    /\ IF audio_player # "none" /\ ~no_wait
       THEN /\ audio_player' = "exited"
            /\ temp_exists' = FALSE
       ELSE UNCHANGED <<audio_player, temp_exists>>
    /\ say_pc' = "done"
    /\ say_result' = "audio"
    /\ UNCHANGED <<playVars, splitVars, tailVars, httpVars, mcpVars, realtime,
                   no_wait, output_format, response_body, audio_data,
                   temp_file_path, enable_realtime_play>>

\* Without --realtime: client.synthesize_speech raises.
SaySynthesisFails ==
    /\ say_pc = "call"
    /\ ~realtime
    /\ response_body.kind # "audio"
    /\ say_pc' = "done"
    /\ say_result' = "raised"
    /\ UNCHANGED <<playVars, splitVars, tailVars, httpVars, mcpVars, realtime,
                   no_wait, output_format, response_body, audio_data,
                   temp_file_path, temp_exists, audio_player,
                   enable_realtime_play>>

\* Without --realtime: client.synthesize_speech returns the audio and
\* temp_file = client.play_audio(audio_data, args.format): the audio is
\* written to a temp file, the player of the platform runs to its end (or
\* cannot be started, and the exception leaves play_audio), and the finally
\* clause unlinks the file.
SayPlayAudio ==
    /\ say_pc = "call"
    /\ ~realtime
    /\ response_body.kind = "audio"
    /\ audio_data' = response_body.size
    /\ temp_file_path' = "path"
    /\ temp_exists' = TempFileAfterPlayAudio(platform)
    /\ \E env \in LaunchEnvs :
         say_result' =
             IF platform \in PlayAudioSupported
                /\ PlayerLaunch(platform, env) = "error"
             THEN "raised" ELSE PlayAudioReturns(platform)
    /\ say_pc' = "done"
    /\ UNCHANGED <<playVars, splitVars, tailVars, httpVars, mcpVars, realtime,
                   no_wait, output_format, response_body, audio_player,
                   enable_realtime_play>>

NextSay ==
    \/ StreamPrepare
    \/ StreamReceive
    \/ StreamBroken
    \/ StreamPlayerExits
    \/ StreamApiError
    \/ StreamReturn
    \/ SaySynthesisFails
    \/ SayPlayAudio

SpecSay == InitSay /\ [][NextSay]_vars

\* ----------------------------------------------------------- properties
\* C1. Single active session: at no instant do two players started by the
\* watcher run.
C1_SingleActiveSession == Cardinality(Running) <= 1

\* C2. Supersession by new input: a player that runs when a newer message
\* has arrived is stopped, however long its audio is; and when the player of
\* a message is started, the players of earlier messages have ended and their
\* temp files are gone.
C2_Supersession ==
    /\ \A p \in Procs :
          (pstate[p] = "running" /\ arrived > pown[p][1])
              ~> (pstate[p] # "running")
    /\ [][(pc[W] = "w_launch" /\ pc'[W] = "w_install") =>
             \A p \in 1..nextId :
                 pown[p][1] < wmsg =>
                     (pstate[p] # "running" /\ p \notin files)]_vars

\* C3. Sequencer abort-on-cancel: once the player of chunk k of a message has
\* been cancelled, no chunk j > k of that message is handed to synthesis.
C3_AbortOnCancel ==
    \A p \in cancelled : \A c \in synth :
        ~(c[1] = pown[p][1] /\ c[2] > pown[p][2])

\* C4. Cleanup guarantee: when a _kill_current_tts call that found a running
\* player returns, the temp file of that player no longer exists.
C4_CancelDeletesTempFile ==
    [][\A t \in Threads :
          (pc[t] = "k_clear" /\ pc'[t] # "k_clear" /\ ~kcall[t].raised)
              => current_tts_process \notin files']_vars

\* C5. Host shutdown: if the slot held a running player when the signal
\* came, then once the host has exited no player runs and no temp file is
\* left.
C5_ShutdownReleasesSession ==
    (host = "exited" /\ activeAtSignal) => (Running = {} /\ files = {})

\* C6. Cancel protocol: a _kill_current_tts call that found an active player
\* has, when it is about to return, called terminate() exactly once and
\* kill() exactly when the player was still running at the end of the
\* 2-second wait; on return the slot is empty.
C6_CancelProtocol ==
    /\ [](\A t \in Threads :
             pc[t] = "k_clear" =>
                 /\ kcall[t].terms = 1
                 /\ kcall[t].kills = (IF kcall[t].alive THEN 1 ELSE 0))
    /\ [][\A t \in Threads :
             (pc[t] \in {"k_term", "k_wait", "k_kill", "k_clear"}
              /\ pc'[t] = kret[t]) => current_tts_process' = None]_vars

\* C7. Cancel idempotence: a _kill_current_tts call that finds no active
\* player signals nothing, returns to its caller and leaves the slot, the
\* players and the files as they are; no temp file is unlinked twice.
C7_CancelIdempotent ==
    /\ [](\A t \in Threads : pc[t] = "k_none" => kcall[t] = NoCall)
    /\ [](\A n \in Procs : unlinks[n] <= 1)
    /\ [][\A t \in Threads :
             (pc[t] = "k_none" /\ pc'[t] # "k_none") =>
                 /\ pc'[t] = kret[t]
                 /\ current_tts_process' = current_tts_process
                 /\ pstate' = pstate
                 /\ cancelled' = cancelled
                 /\ files' = files
                 /\ unlinks' = unlinks]_vars

\* A cancel call that found nothing to cancel, made after an earlier cancel
\* stopped a player.
C7_Witness == \E t \in Threads : pc[t] = "k_none" /\ cancelled # {}

\* C8. Teardown exactly once: the termination steps of cleanup() run at most
\* once, they have run once when the host exits, and no invocation is held
\* up at the guard lock, where it would keep the steps from running at all.
C8_TeardownExactlyOnce ==
    /\ cleanupRuns <= 1
    /\ host = "exited" => cleanupRuns = 1
    /\ \A t \in SigFrames : pc[t] # "c_lock"

\* C9. Strictly sequential chunks: chunks are handed to synthesis in index
\* order, a chunk only when no player of an earlier chunk of the message
\* still runs, and two players of one message never run together.
C9_SequentialChunks ==
    /\ [](\A p, q \in Running : pown[p][1] = pown[q][1] => p = q)
    /\ [][synth' # synth =>
             /\ synth' = synth \cup {<<wmsg, wchunk>>}
             /\ \A j \in 1..(wchunk - 1) : <<wmsg, j>> \in synth
             /\ \A p \in Running :
                   ~(pown[p][1] = wmsg /\ pown[p][2] < wchunk)]_vars

\* C10. Launch failure: a play_audio_async call that could not start a player
\* leaves no temp file, and no handle of it reaches the caller or the slot.
C10_LaunchFailureCleansUp ==
    \A n \in 1..nextId :
        pstate[n] = "unborn" =>
            /\ n \notin files
            /\ wproc # n /\ wtemp # n
            /\ current_tts_process # n

\* On Linux neither play nor aplay could be started: the error is on its way
\* to the except clause of _play_with_library_sync.
C10_Witness ==
    /\ platform = "linux"
    /\ pc[W] = "w_finally"
    /\ nextId >= 1 /\ pstate[nextId] = "unborn" /\ unlinks[nextId] = 1
    /\ wproc = None /\ wtemp = None

\* C11. Segmentation round-trip: the chunks returned by split_text_smart,
\* concatenated in order, are the input text.
C11_RoundTrip == split_done => Join(chunks) = text

\* C12. Chunk size bounds: every chunk returned for a non-empty text has at
\* least one character and at most max_chars.
C12_ChunkSizeBounds ==
    (split_done /\ text # <<>>) =>
        \A k \in 1..Len(chunks) :
            Len(chunks[k]) >= 1 /\ Len(chunks[k]) <= max_chars

\* A text of three sentences cut into more than one chunk, one of them cut
\* from a sentence longer than max_chars.
C12_Witness ==
    /\ split_done
    /\ Len(text) > max_chars
    /\ Len(chunks) >= 2
    /\ \E k \in 1..Len(text) : text[k] \in Terminators
    /\ \E k \in 1..Len(text) : text[k] \in Whitespace

\* C13. Short input: the empty text gives the empty list, and a text of at
\* most max_chars characters gives the list of the text itself, unchanged.
C13_ShortInput ==
    (split_done /\ Len(text) <= max_chars) =>
        chunks = (IF text = <<>> THEN <<>> ELSE <<text>>)

\* A short text with white space at both ends has been split.
C13_Witness ==
    /\ split_done
    /\ Len(text) = 3 /\ max_chars = 3
    /\ text[1] = " " /\ text[3] = "\n"
    /\ chunks = <<text>>

\* C14. Malformed lines do not abort the tail: once a modification event
\* has been handled after the last append, the processed-line count is the
\* length of the file and every assistant record appended since the watcher
\* was built has been passed to the handler.
C14_MalformedLinesSkipped ==
    caughtUp =>
        /\ processed_lines = Len(lines)
        /\ \A i \in (initial_count + 1)..Len(lines) :
               CallsHandler(lines[i]) => handledCount[i] >= 1

C16_NewLinesOnce ==
    /\ \A i \in 1..initial_count : handledCount[i] = 0
    /\ \A i \in 1..MaxLines : handledCount[i] <= 1
    /\ caughtUp =>
           \A i \in (initial_count + 1)..Len(lines) :
               CallsHandler(lines[i]) => handledCount[i] = 1

\* C17. Missing credential: with an unset or empty AIVIS_API_KEY the watcher
\* sends no synthesis request and starts no player, and get_tts_client
\* raises ValueError.
C17_MissingCredential ==
    api_key \in {"unset", "empty"} =>
        /\ \A i \in 1..MaxLines : effects[i] \cap {"synth", "play"} = {}
        /\ client_result \in {"none", "ValueError"}

\* With an empty key an assistant record with a text has been handled and
\* get_tts_client has been called.
C17_Witness ==
    /\ api_key = "empty"
    /\ client_result = "ValueError"
    /\ \E i \in 1..Len(lines) :
          handledCount[i] = 1 /\ lines[i].text # <<>> /\ effects[i] = {}

\* C18. Error classification: HTTP 401 raises with the authentication
\* category, HTTP 503 with the service-unavailable category, and a 200
\* response whose body is {status_code: 400, detail: ...} raises with the
\* category of an explicit HTTP 400; none of them returns audio.
C18_ErrorClassification ==
    outcome # NoOutcome =>
        /\ status_code = 401 => outcome = Outcome("raise", "authentication")
        /\ status_code = 503 => outcome = Outcome("raise", "service_unavailable")
        /\ (status_code = 200 /\ body = Body("json_error", 400)) =>
               outcome = Outcome("raise", ErrorCategory(400))

\* C19. MCP speak, a playback failure is chunk-local: a chunk whose player
\* cannot be launched or whose wait raises gets a playback_result with
\* status "error" and the message of the failure; when no synthesis
\* call fails, every chunk of every segment with text is still synthesized
\* and played and the call returns success True.
C19_PlaybackFailureChunkLocal ==
    /\ Len(AllChunkResults) <= Len(synth_calls)
    /\ \A k \in 1..Len(AllChunkResults) :
         /\ synth_calls[k].synth = "audio"
         /\ synth_calls[k].play = "launch_error" =>
              AllChunkResults[k].playback_result =
                  [status |-> "error", message |-> "playback failed"]
         /\ synth_calls[k].play = "wait_error" =>
              AllChunkResults[k].playback_result =
                  [status |-> "error", message |-> "playback wait failed"]
         /\ synth_calls[k].play = "completed" =>
              AllChunkResults[k].playback_result.status = "completed"
    /\ (/\ mcp_pc = "returned"
        /\ speech_segments # <<>>
        /\ \A k \in 1..Len(synth_calls) : synth_calls[k].synth = "audio")
       => /\ final_result.success
          /\ [k \in 1..Len(synth_calls) |-> synth_calls[k].text]
               = ExpectedChunks(speech_segments, 1)
          /\ Len(ChunksOf(final_result.segments)) = Len(synth_calls)
C19_Witness ==
    /\ mcp_pc = "returned"
    /\ final_result.success
    /\ Len(synth_calls) = 3
    /\ synth_calls[1].play = "launch_error"
    /\ synth_calls[2].play = "wait_error"
    /\ synth_calls[2].segment = 1
    /\ synth_calls[3].segment = 2
    /\ synth_calls[3].play = "completed"
    /\ final_result.segments[1].chunks[1].playback_result.status = "error"
    /\ final_result.segments[2].chunks[1].playback_result.status = "completed"

\* C20. MCP speak, empty segments: when the call returns success, synthesis
\* was called exactly for the segments whose text is not empty, in request
\* order, and segments_count and segments cover exactly those segments.
C20_EmptySegments ==
    (mcp_pc = "returned" /\ final_result.success)
    => /\ SegmentsIn(synth_calls) = NonEmptySegments(speech_segments, 1)
       /\ SegmentsIn(final_result.segments)
            = NonEmptySegments(speech_segments, 1)
       /\ final_result.segments_count
            = Len(NonEmptySegments(speech_segments, 1))

\* C21. Synthesis failure is message-scoped: once synthesize_speech has
\* raised for chunk k of a message, no chunk j > k of that message is handed
\* to synthesis.
C21_SynthesisFailureMessageScoped ==
    \A c \in synth_failed : \A d \in synth : ~(d[1] = c[1] /\ d[2] > c[2])

\* C22. Owner-only slot release: a reaper that has finished waiting for a
\* player clears the slot and the playing flag only if the slot does not
\* hold another player, one that is still running.
C22_OwnerOnlyRelease ==
    [][\A n \in Procs :
         (/\ mpc[n] = "m_clear" /\ mpc'[n] = "m_done"
          /\ HasActive(current_tts_process, pstate))
         => /\ current_tts_process' = current_tts_process
            /\ is_playing' = is_playing]_vars

C24_CancelStopsPlayback ==
    /\ \A t \in Threads :
         pc[t] = "k_clear" => pstate[current_tts_process] # "running"
    /\ pc[W] = "w_ccleanup" => pstate[wproc] # "running"

\* C25. Abnormal player exit is a failure: a chunk whose player exits by
\* itself with a non-zero exit code has a playback_result of status "error",
\* and status "completed" is given only after exit code 0.
C25_AbnormalExitIsFailure ==
    \A k \in 1..Len(AllChunkResults) :
        /\ synth_calls[k].play = "exit_nonzero" =>
             AllChunkResults[k].playback_result.status = "error"
        /\ AllChunkResults[k].playback_result.status = "completed" =>
             synth_calls[k].play = "completed"

\* C26. Wait resolves: while the watcher runs, the polling wait of
\* _play_with_library_sync is left at some time once its player has exited
\* or the slot no longer holds its handle, and it is never left with the
\* player still running unless a cancel was carried out on that player.
Polling == pc[W] \in {"w_poll", "w_check"}
C26_WaitResolves ==
    /\ (Polling /\ (pstate[wproc] # "running" \/ current_tts_process # wproc))
         ~> (~Polling \/ host = "exited")
    /\ [][(Polling /\ ~Polling' /\ pstate[wproc] = "running")
            => wproc \in cancelled]_vars
\* The wait was left through its cancel branch after a cancel of its player.
C26_Witness ==
    /\ pc[W] = "w_cpoll"
    /\ wproc \in cancelled
    /\ current_tts_process # wproc

\* C27. Streaming playback leaves nothing behind: when a
\* synthesize_and_stream call made with realtime playback and no_wait False
\* has returned or raised, the temp file it made is gone and no player it
\* started still runs.
C27_StreamingLeavesNothing ==
    (say_pc = "done" /\ realtime /\ ~no_wait)
    => (~temp_exists /\ audio_player # "running")

\* C29. Unsupported platform: on a platform without a player play_audio
\* returns the path of the temp file, and the file is there when it returns.
C29_UnsupportedPlatform ==
    (say_pc = "done" /\ ~realtime /\ platform \notin PlayAudioSupported
     /\ say_result # "raised")
    => (say_result = "path" /\ temp_exists)

\* C30. Segmenter termination: split_text_smart returns for every text and
\* every integer max_chars, zero and negative values included.
C30_SegmenterTerminates == <>split_done

\* C28. ESC cancellation stays available: whatever the interleaving of an
\* ESC key press with the slot being cleared, the key-listener thread does
\* not end.
C28_EscListenerAlive == pc[E] # "e_dead"

====
